---- MODULE Spec2Model ----
(***************************************************************************)
(* Model of the MSO schema-driven document objects (src/MSO/base_model.py):*)
(* MongoModel attribute reads and writes, validation, deserialization,     *)
(* dirty propagation, serialization, the ListFieldWrapper container, and    *)
(* the operations that load and store documents in a collection.           *)
(*                                                                         *)
(* Python objects live in a heap: node ids index the sequences cls, data,  *)
(* parent and parent_key; wrapper ids index the sequence wraps.  Values    *)
(* are tagged records [k |-> kind, v |-> payload].                         *)
(***************************************************************************)
EXTENDS Integers, Sequences, FiniteSets, TLC

VARIABLES
    cls,         \* cls[n]: the model class of node n
    data,        \* data[n]: the node's _data dict (field name -> value)
    parent,      \* parent[n]: the node's _parent (0 = None)
    parent_key,  \* parent_key[n]: the node's _parent_key ("" = None)
    wraps,       \* wraps[w]: a ListFieldWrapper (_parent, _field_name, _item_class, items)
    op,          \* the last operation: what was called and what it returned or raised
    steps,       \* number of operations performed so far
    docs,        \* the documents of the collection, in insertion order
    oids,        \* number of ObjectIds the collection has generated
    now,         \* the clock datetime.utcnow() reads
    timestamps_enabled  \* the class attribute of the stored model class

storevars == <<docs, oids, now, timestamps_enabled>>

vars == <<cls, data, parent, parent_key, wraps, op, steps, docs, oids, now,
          timestamps_enabled>>

\* ---------------------------------------------------------------- bounds
MaxNodes == 4
MaxWraps == 2
MaxSteps == 3
MaxWriteSteps == 5
MaxStoreNodes == 6
MaxStoreSteps == 4
MaxDocs == 2
MaxTime == 2
MaxCycleSteps == 3
MaxApiSteps == 3

\* ---------------------------------------------------------------- values
None == [k |-> "none", v |-> 0]
I(i) == [k |-> "int", v |-> i]
S(s) == [k |-> "str", v |-> s]
B(b) == [k |-> "bool", v |-> b]
NodeRef(n) == [k |-> "node", v |-> n]
WrapRef(w) == [k |-> "wrap", v |-> w]
PList(items) == [k |-> "list", v |-> items]
Dict(pairs) == [k |-> "dict", v |-> pairs]
Date(t) == [k |-> "datetime", v |-> t]
ObjectId(i) == [k |-> "ObjectId", v |-> i]

\* Python ==: True == 1 and False == 0, objects without __eq__ by identity
PyEq(a, b) ==
    IF a.k = b.k THEN a.v = b.v
    ELSE IF a.k = "bool" /\ b.k = "int" THEN b.v = (IF a.v THEN 1 ELSE 0)
    ELSE IF a.k = "int" /\ b.k = "bool" THEN a.v = (IF b.v THEN 1 ELSE 0)
    ELSE FALSE

\* item in seq (Python `in` on a list)
PyIn(x, seq) == \E i \in 1..Len(seq) : PyEq(seq[i], x)

\* dict.get(key) on a dict value given as a sequence of <<key, value>> pairs
DictGet(pairs, key) ==
    IF \E i \in 1..Len(pairs) : pairs[i][1] = key
    THEN pairs[CHOOSE i \in 1..Len(pairs) : pairs[i][1] = key][2]
    ELSE None

DictHas(pairs, key) == \E i \in 1..Len(pairs) : pairs[i][1] = key

\* d[name] = value on a _data dict
Put(d, name, value) ==
    [g \in (DOMAIN d) \cup {name} |-> IF g = name THEN value ELSE d[g]]

\* ---------------------------------------------------------------- type registry
BSON_TYPE_MAP ==
    [string |-> "str", int |-> "int", bool |-> "bool", double |-> "float",
     date |-> "datetime", objectId |-> "ObjectId", binData |-> "bytes",
     decimal |-> "Decimal", long |-> "int", timestamp |-> "datetime",
     null |-> "NoneType", object |-> "dict", array |-> "list"]

\* BSON_TYPE_MAP.get(t, object)
MapType(t) == IF t \in DOMAIN BSON_TYPE_MAP THEN BSON_TYPE_MAP[t] ELSE "object"

\* isinstance(value, host kind); bool is a subclass of int, the wrapper of list
IsInstance(value, kind) ==
    CASE kind = "object" -> TRUE
      [] kind = "int" -> value.k \in {"int", "bool"}
      [] kind = "list" -> value.k \in {"list", "wrap"}
      [] kind = "NoneType" -> value.k = "none"
      [] OTHER -> value.k = kind

IsList(value) == IsInstance(value, "list")

\* ---------------------------------------------------------------- schema
\* bsonType: one type name, a list of type names, or missing
T1(t) == [list |-> FALSE, t |-> <<t>>]
TU(ts) == [list |-> TRUE, t |-> ts]
NoType == [list |-> FALSE, t |-> <<>>]
NoEnum == [has |-> FALSE, vals |-> <<>>]
Enum(vals) == [has |-> TRUE, vals |-> vals]
NoItems == [has |-> FALSE, bsonType |-> NoType, enum |-> NoEnum]
Items(t, e) == [has |-> TRUE, bsonType |-> t, enum |-> e]
Field(t, e, it) == [bsonType |-> t, enum |-> e, items |-> it]
EmptyFieldSchema == Field(NoType, NoEnum, NoItems)

Classes == {"People", "Health", "Physician", "Condition"}

\* the classes of a collection: People, and a class whose schema declares the
\* timestamp field created_at
StoredClasses == {"People", "Event"}

\* the enum list shared by the enum-constrained fields
EnumVals == <<S("a"), S("b")>>

Properties(c) ==
    CASE c = "People" ->
           [age        |-> Field(T1("int"), NoEnum, NoItems),
            gender     |-> Field(T1("string"), Enum(EnumVals), NoItems),
            health     |-> Field(T1("object"), NoEnum, NoItems)]
      [] c = "Health" ->
           [physician  |-> Field(T1("object"), NoEnum, NoItems),
            blood      |-> Field(T1("string"), Enum(EnumVals), NoItems),
            conditions |-> Field(T1("array"), NoEnum, Items(T1("object"), NoEnum))]
      [] c = "Physician" ->
           [name        |-> Field(TU(<<"string", "null">>), NoEnum, NoItems),
            specialties |-> Field(T1("array"), NoEnum,
                                  Items(T1("string"), Enum(EnumVals)))]
      [] c = "Condition" ->
           [name       |-> Field(NoType, Enum(EnumVals), NoItems),
            diagnosed  |-> Field(T1("string"), NoEnum, NoItems)]
      [] c = "Event" ->
           [age        |-> Field(T1("int"), NoEnum, NoItems),
            created_at |-> Field(T1("date"), NoEnum, NoItems)]
      [] c = "Account" ->
           [_id        |-> Field(T1("objectId"), NoEnum, NoItems),
            name       |-> Field(T1("string"), NoEnum, NoItems),
            health     |-> Field(TU(<<"object", "null">>), NoEnum, NoItems)]

Declared(c) == DOMAIN Properties(c)

\* schema_props.get(name, {})
FieldSchema(c, name) ==
    IF name \in Declared(c) THEN Properties(c)[name] ELSE EmptyFieldSchema

\* the class attribute __class_for__<name> (also the attribute <name> itself)
NestedClass(c, name) ==
    CASE c = "People" /\ name = "health" -> "Health"
      [] c = "Health" /\ name = "physician" -> "Physician"
      [] c = "Account" /\ name = "health" -> "Health"
      [] OTHER -> ""

\* the class attribute <name>_item
ItemClass(c, name) ==
    CASE c = "Health" /\ name = "conditions" -> "Condition"
      [] OTHER -> ""

\* every field name used, in the order to_dict output is normalised to
FieldOrder ==
    <<"_id", "age", "gender", "health", "physician", "blood", "conditions", "name",
      "specialties", "diagnosed", "bogus", "created_at", "last_modified">>

\* names for which name.startswith("_") holds
UnderscoreNames == {"_id"}

\* ---------------------------------------------------------------- heap
\* H is the heap as one record, so that the methods below are operators
\* from heap to heap; the variables hold its five components.
Heap == [cls |-> cls, data |-> data, parent |-> parent,
         parent_key |-> parent_key, wraps |-> wraps]

NodesOf(H) == 1..Len(H.cls)

\* the elements of a list value (a plain list or a ListFieldWrapper)
ListItems(H, value) ==
    IF value.k = "wrap" THEN H.wraps[value.v].items ELSE value.v

\* isinstance(value, klass) for a generated model class
IsNodeOf(H, value, klass) == value.k = "node" /\ H.cls[value.v] = klass

OK == [e |-> "ok", i |-> 0]
Raise(e, i) == [e |-> e, i |-> i]

\* the index at which a loop over a list raises: the smallest failing one, 0 if none
FirstBad(failing) ==
    IF failing = {} THEN 0
    ELSE CHOOSE i \in failing : \A j \in failing : i <= j

\* ---------------------------------------------------------------- validation
\* membership of a value, or of every element of a list, in the enum list
EnumMembership(H, fs, value) ==
    IF IsList(value)
    THEN LET items == ListItems(H, value)
             bad == FirstBad({i \in 1..Len(items) : ~PyIn(items[i], fs.enum.vals)})
         IN  IF bad # 0 THEN Raise("ValueError", bad) ELSE OK
    ELSE IF ~PyIn(value, fs.enum.vals) THEN Raise("ValueError", 0) ELSE OK

\* variant of ValidateEnum that checks the enum only where a bsonType is declared
ValidateEnumTyped(H, fs, value) ==
    IF fs.enum.has /\ value.k # "none" /\ fs.bsonType.t # <<>>
    THEN EnumMembership(H, fs, value)
    ELSE OK

\* the enum block of _validate_field_type
ValidateEnum(H, fs, value) ==
    IF fs.enum.has /\ value.k # "none"
    THEN EnumMembership(H, fs, value)
    ELSE OK

\* expected_types of _validate_field_type
ExpectedTypes(bt) ==
    IF bt.list
    THEN LET known == SelectSeq(bt.t, LAMBDA t : t \in DOMAIN BSON_TYPE_MAP)
         IN  [i \in 1..Len(known) |-> MapType(known[i])]
    ELSE <<MapType(bt.t[1])>>

\* variant of ValidateItem without the enum test of scalar elements
ValidateItemNoEnum(H, c, name, fs, item) ==
    LET item_type == fs.items.bsonType
        item_class == ItemClass(c, name)
    IN  IF item_class # "" /\ IsNodeOf(H, item, item_class) THEN "ok"
        ELSE IF item_type.list THEN "TypeError"
        ELSE IF item_type.t = <<>> THEN "ok"
        ELSE IF ~IsInstance(item, MapType(item_type.t[1])) THEN "TypeError"
        ELSE "ok"

\* what the loop does with one array element: "ValueError", "TypeError" or "ok"
ValidateItem(H, c, name, fs, item) ==
    LET item_enum == fs.items.enum
        item_type == fs.items.bsonType
        item_class == ItemClass(c, name)
    IN  IF item_enum.has /\ item_enum.vals # <<>> /\ item.k \notin {"dict", "node"}
           /\ ~PyIn(item, item_enum.vals)
        THEN "ValueError"
        ELSE IF item_class # "" /\ IsNodeOf(H, item, item_class) THEN "ok"
        ELSE IF item_type.list THEN "TypeError"
        ELSE IF item_type.t = <<>> THEN "ok"
        ELSE IF ~IsInstance(item, MapType(item_type.t[1])) THEN "TypeError"
        ELSE "ok"

\* the array block of _validate_field_type
ValidateArray(H, c, name, fs, value) ==
    IF ~IsList(value) THEN Raise("TypeError", 0)
    ELSE LET items == ListItems(H, value)
             bad == FirstBad({i \in 1..Len(items) :
                                 ValidateItem(H, c, name, fs, items[i]) # "ok"})
         IN  IF bad # 0
             THEN Raise(ValidateItem(H, c, name, fs, items[bad]), bad)
             ELSE OK

\* MongoModel._validate_field_type on a node of class c
Validate(H, c, name, value) ==
    IF name \in UnderscoreNames THEN OK
    ELSE LET fs == FieldSchema(c, name)
             bt == fs.bsonType
             en == ValidateEnum(H, fs, value)
         IN  IF en.e # "ok" THEN en
             ELSE IF bt.t = <<>> \/ value.k = "none" THEN OK
             ELSE IF ~bt.list /\ bt.t[1] = "object" /\ NestedClass(c, name) # ""
                     /\ IsNodeOf(H, value, NestedClass(c, name))
             THEN OK
             ELSE IF ~bt.list /\ bt.t[1] = "array"
             THEN ValidateArray(H, c, name, fs, value)
             ELSE LET expected == ExpectedTypes(bt)
                  IN  IF \E i \in 1..Len(expected) : IsInstance(value, expected[i])
                      THEN OK
                      ELSE Raise("TypeError", 0)

\* ---------------------------------------------------------------- attribute writes
\* Each method is split at the points where it uses the result of a call:
\* the operator named after the method makes the call, the next operator
\* continues with its result.
RECURSIVE MarkDirty(_, _, _)
RECURSIVE SetAttr(_, _, _, _)
RECURSIVE SetAll(_, _, _, _)
RECURSIVE SetAllNext(_, _, _, _)
RECURSIVE DeserializeList(_, _, _, _, _)
RECURSIVE DeserializeListNext(_, _, _, _, _)

\* the parent walk stops after this many frames (Python: RecursionError)
RecursionLimit(H) == Len(H.cls) + 1

\* variant of MarkDirty that rewrites the parent's slot and does not go on
\* to the parent's parent
MarkDirtyOnce(H, n, fuel) ==
    IF H.parent[n] = 0 THEN [h |-> H, e |-> OK]
    ELSE IF H.parent_key[n] \in DOMAIN H.data[H.parent[n]]
            /\ IsList(H.data[H.parent[n]][H.parent_key[n]])
    THEN [h |-> H, e |-> OK]
    ELSE [h |-> [H EXCEPT !.data[H.parent[n]] = Put(@, H.parent_key[n], NodeRef(n))],
          e |-> OK]

\* MongoModel._mark_dirty: rewrite the parent's slot unless it holds a list
MarkDirty(H, n, fuel) ==
    IF H.parent[n] = 0 THEN [h |-> H, e |-> OK]
    ELSE IF H.parent_key[n] \in DOMAIN H.data[H.parent[n]]
            /\ IsList(H.data[H.parent[n]][H.parent_key[n]])
    THEN [h |-> H, e |-> OK]
    ELSE IF fuel = 0
    THEN [h |-> [H EXCEPT !.data[H.parent[n]] = Put(@, H.parent_key[n], NodeRef(n))],
          e |-> Raise("RecursionError", 0)]
    ELSE MarkDirty([H EXCEPT !.data[H.parent[n]] = Put(@, H.parent_key[n], NodeRef(n))],
                   H.parent[n], fuel - 1)

\* the nodes whose parent link __setattr__ sets: the value, or the nodes in a list
StampedNodes(H, value) ==
    IF value.k = "node" THEN {value.v}
    ELSE IF IsList(value)
    THEN {x.v : x \in {y \in {ListItems(H, value)[i] : i \in 1..Len(ListItems(H, value))} :
                          y.k = "node"}}
    ELSE {}

\* item._parent = owner; item._parent_key = name for the nodes in ids
SetParents(H, ids, owner, name) ==
    [H EXCEPT !.parent = [m \in DOMAIN @ |-> IF m \in ids THEN owner ELSE @[m]],
              !.parent_key = [m \in DOMAIN @ |-> IF m \in ids THEN name ELSE @[m]]]

\* the "track parent context" block of __setattr__
Stamp(H, n, name, value) == SetParents(H, StampedNodes(H, value), n, name)

\* self._data[name] = value
Assign(H, n, name, value) == [H EXCEPT !.data[n] = Put(@, name, value)]

\* bson_type after `next((t for t in bson_type if t != "null"), None)`
FirstNonNull(bt) ==
    IF bt.list
    THEN IF SelectSeq(bt.t, LAMBDA t : t # "null") = <<>> THEN ""
         ELSE SelectSeq(bt.t, LAMBDA t : t # "null")[1]
    ELSE IF bt.t = <<>> THEN "" ELSE bt.t[1]

\* MongoModel.__init__ before the keywords are set: a fresh, empty node
NewNode(H, c) ==
    [H EXCEPT !.cls = Append(@, c), !.data = Append(@, <<>>),
              !.parent = Append(@, 0), !.parent_key = Append(@, "")]

\* for key, value in kwargs.items(): setattr(self, key, value)
SetAll(H, n, kwargs, i) ==
    IF i > Len(kwargs) THEN [h |-> H, e |-> OK, node |-> n]
    ELSE SetAllNext(n, kwargs, i, SetAttr(H, n, kwargs[i][1], kwargs[i][2]))

SetAllNext(n, kwargs, i, r) ==
    IF r.e.e # "ok" THEN [h |-> r.h, e |-> r.e, node |-> n]
    ELSE SetAll(r.h, n, kwargs, i + 1)

\* klass(**kwargs): MongoModel.__init__
Construct(H, c, kwargs) == SetAll(NewNode(H, c), Len(H.cls) + 1, kwargs, 1)

\* [item_class(**v) if isinstance(v, dict) else v for v in value]
DeserializeList(H, item_class, items, i, acc) ==
    IF i > Len(items) THEN [h |-> H, e |-> OK, val |-> PList(acc)]
    ELSE IF items[i].k = "dict"
    THEN DeserializeListNext(item_class, items, i, acc, Construct(H, item_class, items[i].v))
    ELSE DeserializeList(H, item_class, items, i + 1, Append(acc, items[i]))

DeserializeListNext(item_class, items, i, acc, r) ==
    IF r.e.e # "ok" THEN [h |-> r.h, e |-> r.e, val |-> None]
    ELSE DeserializeList(r.h, item_class, items, i + 1, Append(acc, NodeRef(r.node)))

\* the constructed nested instance as the deserialized value
AsValue(r) == [h |-> r.h, e |-> r.e, val |-> NodeRef(r.node)]

\* variant of Deserialize that converts nothing
DeserializeNothing(H, c, name, value) == [h |-> H, e |-> OK, val |-> value]

\* MongoModel._deserialize_field
Deserialize(H, c, name, value) ==
    IF FirstNonNull(FieldSchema(c, name).bsonType) = "object"
       /\ NestedClass(c, name) # "" /\ value.k = "dict"
    THEN AsValue(Construct(H, NestedClass(c, name), value.v))
    ELSE IF FirstNonNull(FieldSchema(c, name).bsonType) = "array"
            /\ FieldSchema(c, name).items.has
            /\ FirstNonNull(FieldSchema(c, name).items.bsonType) = "object"
            /\ ItemClass(c, name) # "" /\ IsList(value)
    THEN DeserializeList(H, ItemClass(c, name), ListItems(H, value), 1, <<>>)
    ELSE [h |-> H, e |-> OK, val |-> value]

\* variant of SetAttrStore that leaves out self._data[name] = value
SetAttrStoreNoAssign(H, n, name, value) ==
    MarkDirty(Stamp(H, n, name, value), n, RecursionLimit(H))

\* __setattr__ once the value is validated: stamp, store, mark dirty
SetAttrStore(H, n, name, value) ==
    MarkDirty(Assign(Stamp(H, n, name, value), n, name, value), n, RecursionLimit(H))

\* __setattr__ after _validate_field_type returned or raised ve
SetAttrValidated(n, name, d, ve) ==
    IF ve.e # "ok" THEN [h |-> d.h, e |-> ve]
    ELSE SetAttrStore(d.h, n, name, d.val)

\* __setattr__ after _deserialize_field returned or raised d
SetAttrDeserialized(n, name, d) ==
    IF d.e.e # "ok" THEN [h |-> d.h, e |-> d.e]
    ELSE SetAttrValidated(n, name, d, Validate(d.h, d.h.cls[n], name, d.val))

\* MongoModel.__setattr__ for a name that is not one of the reserved ones
SetAttr(H, n, name, value) ==
    SetAttrDeserialized(n, name, Deserialize(H, H.cls[n], name, value))

\* ---------------------------------------------------------------- attribute reads
\* the name has a stored value: return it, refreshing a node's parent link
GetStored(H, n, name) ==
    IF H.data[n][name].k = "node"
    THEN [h |-> [H EXCEPT !.parent[H.data[n][name].v] = n,
                          !.parent_key[H.data[n][name].v] = name],
          e |-> OK, ret |-> H.data[n][name]]
    ELSE [h |-> H, e |-> OK, ret |-> H.data[n][name]]

\* variant of GetNested that returns the new instance without storing it
GetNestedUnstored(H, n, name) ==
    [h |-> [NewNode(H, NestedClass(H.cls[n], name))
              EXCEPT !.parent[Len(H.cls) + 1] = n, !.parent_key[Len(H.cls) + 1] = name],
     e |-> OK, ret |-> NodeRef(Len(H.cls) + 1)]

\* auto-instantiate the nested object: create, wire to n, store, return
GetNested(H, n, name) ==
    [h |-> [NewNode(H, NestedClass(H.cls[n], name))
              EXCEPT !.parent[Len(H.cls) + 1] = n, !.parent_key[Len(H.cls) + 1] = name,
                     !.data[n] = Put(@, name, NodeRef(Len(H.cls) + 1))],
     e |-> OK, ret |-> NodeRef(Len(H.cls) + 1)]

\* ListFieldWrapper(self, name, item_class)
NewWrapper(n, name, item_class) ==
    [parent |-> n, field_name |-> name, item_class |-> item_class, items |-> <<>>]

\* a declared name without a value: a wrapper or [] for an array, else None
\* variant of GetDeclared that returns the unset value of a field that is not an
\* array of objects without storing it
GetDeclaredUnstored(H, n, name) ==
    IF ~FieldSchema(H.cls[n], name).bsonType.list
       /\ FieldSchema(H.cls[n], name).bsonType.t = <<"array">>
    THEN IF ItemClass(H.cls[n], name) # ""
         THEN [h |-> [H EXCEPT !.wraps = Append(@, NewWrapper(n, name, ItemClass(H.cls[n], name))),
                               !.data[n] = Put(@, name, WrapRef(Len(H.wraps) + 1))],
               e |-> OK, ret |-> WrapRef(Len(H.wraps) + 1)]
         ELSE [h |-> H, e |-> OK, ret |-> PList(<<>>)]
    ELSE [h |-> H, e |-> OK, ret |-> None]

GetDeclared(H, n, name) ==
    IF ~FieldSchema(H.cls[n], name).bsonType.list
       /\ FieldSchema(H.cls[n], name).bsonType.t = <<"array">>
    THEN IF ItemClass(H.cls[n], name) # ""
         THEN [h |-> [H EXCEPT !.wraps = Append(@, NewWrapper(n, name, ItemClass(H.cls[n], name))),
                               !.data[n] = Put(@, name, WrapRef(Len(H.wraps) + 1))],
               e |-> OK, ret |-> WrapRef(Len(H.wraps) + 1)]
         ELSE [h |-> [H EXCEPT !.data[n] = Put(@, name, PList(<<>>))],
               e |-> OK, ret |-> PList(<<>>)]
    ELSE [h |-> [H EXCEPT !.data[n] = Put(@, name, None)], e |-> OK, ret |-> None]

\* variant of GetAttr that treats an undeclared name like an unset scalar
GetAttrLenient(H, n, name) ==
    IF name \in DOMAIN H.data[n] THEN GetStored(H, n, name)
    ELSE IF NestedClass(H.cls[n], name) # "" THEN GetNested(H, n, name)
    ELSE IF name \in Declared(H.cls[n]) THEN GetDeclared(H, n, name)
    ELSE [h |-> [H EXCEPT !.data[n] = Put(@, name, None)], e |-> OK, ret |-> None]

\* MongoModel.__getattr__
GetAttr(H, n, name) ==
    IF name \in DOMAIN H.data[n] THEN GetStored(H, n, name)
    ELSE IF NestedClass(H.cls[n], name) # "" THEN GetNested(H, n, name)
    ELSE IF name \in Declared(H.cls[n]) THEN GetDeclared(H, n, name)
    ELSE [h |-> H, e |-> Raise("AttributeError", 0), ret |-> None]

\* ---------------------------------------------------------------- serialization
RECURSIVE ToDict(_, _, _)
RECURSIVE SerializeList(_, _, _)

RecursionError == [k |-> "RecursionError", v |-> 0]

\* [i.to_dict() if isinstance(i, MongoModel) else i for i in v]
SerializeList(H, items, fuel) ==
    [i \in 1..Len(items) |->
        IF items[i].k = "node" THEN ToDict(H, items[i].v, fuel) ELSE items[i]]

\* does a serialized value contain a node whose to_dict did not return
Overflowed(x) ==
    x.k = "RecursionError"

\* MongoModel.to_dict / _serialize_data; keys are listed in FieldOrder
ToDict(H, n, fuel) ==
    IF fuel = 0 THEN RecursionError
    ELSE LET keys == SelectSeq(FieldOrder, LAMBDA f : f \in DOMAIN H.data[n])
             ser(val) == IF val.k = "node" THEN ToDict(H, val.v, fuel - 1)
                         ELSE IF IsList(val)
                         THEN LET s == SerializeList(H, ListItems(H, val), fuel - 1)
                              IN  IF \E i \in 1..Len(s) : Overflowed(s[i])
                                  THEN RecursionError ELSE PList(s)
                         ELSE val
             out == [i \in 1..Len(keys) |-> <<keys[i], ser(H.data[n][keys[i]])>>]
         IN  IF \E i \in 1..Len(out) : Overflowed(out[i][2])
             THEN RecursionError
             ELSE Dict(out)

\* to_dict() of node n in heap H
to_dict(H, n) == ToDict(H, n, Len(H.cls) + 1)

\* MongoModel.from_dict: cls(), then setattr for every key of the plain map
from_dict(H, c, plain) == SetAll(NewNode(H, c), Len(H.cls) + 1, plain.v, 1)

\* ---------------------------------------------------------------- ListFieldWrapper
RECURSIVE CollectItems(_, _, _, _, _, _)
RECURSIVE CollectNext(_, _, _, _, _, _)
RECURSIVE CollectRest(_, _, _, _, _)
RECURSIVE MatchNode(_, _, _, _)
RECURSIVE MatchNext(_, _, _, _)
RECURSIVE RemoveScan(_, _, _, _)
RECURSIVE RemoveNext(_, _, _, _, _)

\* the two loops of add() over args and over a list argument: the items to add
CollectItems(H, item_class, args, i, acc, top) ==
    IF i > Len(args) THEN [h |-> H, e |-> OK, items |-> acc]
    ELSE IF IsNodeOf(H, args[i], item_class)
    THEN CollectItems(H, item_class, args, i + 1, Append(acc, args[i]), top)
    ELSE IF args[i].k = "dict"
    THEN CollectNext(item_class, args, i, acc, top, Construct(H, item_class, args[i].v))
    ELSE IF top /\ IsList(args[i])
    THEN CollectRest(item_class, args, i, top,
                     CollectItems(H, item_class, ListItems(H, args[i]), 1, acc, FALSE))
    ELSE [h |-> H, e |-> Raise("TypeError", 0), items |-> acc]

\* new_items.append(self._item_class(**arg))
CollectNext(item_class, args, i, acc, top, r) ==
    IF r.e.e # "ok" THEN [h |-> r.h, e |-> r.e, items |-> acc]
    ELSE CollectItems(r.h, item_class, args, i + 1, Append(acc, NodeRef(r.node)), top)

\* the outer loop continues after a list argument
CollectRest(item_class, args, i, top, r) ==
    IF r.e.e # "ok" THEN r
    ELSE CollectItems(r.h, item_class, args, i + 1, r.items, top)

\* if kwargs: new_items.append(self._item_class(**kwargs))
AddKwargs(H, item_class, kwargs) ==
    IF kwargs # <<>>
    THEN [h |-> Construct(H, item_class, kwargs).h,
          e |-> Construct(H, item_class, kwargs).e,
          items |-> <<NodeRef(Len(H.cls) + 1)>>]
    ELSE [h |-> H, e |-> OK, items |-> <<>>]

\* for arg in args: ...
AddArgs(item_class, args, first) ==
    IF first.e.e # "ok" THEN first
    ELSE CollectItems(first.h, item_class, args, 1, first.items, TRUE)

\* the nodes referred to by a sequence of node references
NodeIds(items) == {items[i].v : i \in 1..Len(items)}

\* variant of AddAppend that appends the items without setting their parent context
AddAppendUnstamped(w, all) ==
    IF all.e.e # "ok" THEN [h |-> all.h, e |-> all.e, ret |-> None]
    ELSE [h |-> [all.h EXCEPT !.wraps[w].items = @ \o all.items],
          e |-> OK,
          ret |-> IF Len(all.items) = 1 THEN all.items[1] ELSE PList(all.items)]

\* for item in new_items: set the parent context, append; then return
AddAppend(w, all) ==
    IF all.e.e # "ok" THEN [h |-> all.h, e |-> all.e, ret |-> None]
    ELSE [h |-> [SetParents(all.h, NodeIds(all.items), all.h.wraps[w].parent,
                            all.h.wraps[w].field_name)
                   EXCEPT !.wraps[w].items = @ \o all.items],
          e |-> OK,
          ret |-> IF Len(all.items) = 1 THEN all.items[1] ELSE PList(all.items)]

\* ListFieldWrapper.add(*args, **kwargs)
Add(H, w, args, kwargs) ==
    AddAppend(w, AddArgs(H.wraps[w].item_class, args,
                         AddKwargs(H, H.wraps[w].item_class, kwargs)))

\* getattr(item, k, None): None when the read raises AttributeError
OrNone(r) == IF r.e.e = "ok" THEN r ELSE [h |-> r.h, e |-> OK, ret |-> None]

\* all(getattr(item, k, None) == v for k, v in criteria.items()) on a node
MatchNode(H, n, criteria, i) ==
    IF i > Len(criteria) THEN [h |-> H, m |-> TRUE]
    ELSE MatchNext(n, criteria, i, OrNone(GetAttr(H, n, criteria[i][1])))

\* variant of MatchNext with any() in place of all()
MatchNextAny(n, criteria, i, r) ==
    IF PyEq(r.ret, criteria[i][2]) THEN [h |-> r.h, m |-> TRUE]
    ELSE MatchNode(r.h, n, criteria, i + 1)

MatchNext(n, criteria, i, r) ==
    IF PyEq(r.ret, criteria[i][2]) THEN MatchNode(r.h, n, criteria, i + 1)
    ELSE [h |-> r.h, m |-> FALSE]

\* all(item.get(k) == v for k, v in criteria.items()) on a plain dict
MatchDict(pairs, criteria) ==
    \A i \in 1..Len(criteria) : PyEq(DictGet(pairs, criteria[i][1]), criteria[i][2])

\* the index list.remove(x) deletes: the first element equal to x
FirstEqual(items, x) ==
    CHOOSE j \in 1..Len(items) :
        PyEq(items[j], x) /\ \A l \in 1..(j - 1) : ~PyEq(items[l], x)

\* del items[j]
DelAt(items, j) == SubSeq(items, 1, j - 1) \o SubSeq(items, j + 1, Len(items))

\* list.remove(x)
ListRemove(items, x) == DelAt(items, FirstEqual(items, x))

\* the loop of remove_by from position i on
RemoveScan(H, w, criteria, i) ==
    IF i > Len(H.wraps[w].items) THEN [h |-> H, ret |-> FALSE]
    ELSE IF H.wraps[w].items[i].k = "node"
    THEN RemoveNext(w, criteria, i, H.wraps[w].items[i],
                    MatchNode(H, H.wraps[w].items[i].v, criteria, 1))
    ELSE IF H.wraps[w].items[i].k = "dict"
    THEN RemoveNext(w, criteria, i, H.wraps[w].items[i],
                    [h |-> H, m |-> MatchDict(H.wraps[w].items[i].v, criteria)])
    ELSE RemoveScan(H, w, criteria, i + 1)

\* if the item matched: self.remove(item); return True
RemoveNext(w, criteria, i, item, r) ==
    IF r.m THEN [h |-> [r.h EXCEPT !.wraps[w].items = ListRemove(@, item)], ret |-> TRUE]
    ELSE RemoveScan(r.h, w, criteria, i + 1)

\* ListFieldWrapper.remove_by(**criteria)
RemoveBy(H, w, criteria) == RemoveScan(H, w, criteria, 1)

\* for item in to_remove: self.remove(item)
RECURSIVE RemoveEach(_, _, _)
RemoveEach(items, to_remove, i) ==
    IF i > Len(to_remove) THEN items
    ELSE RemoveEach(ListRemove(items, to_remove[i]), to_remove, i + 1)

RECURSIVE RemoveAllScan(_, _, _, _, _), RemoveAllNext(_, _, _, _, _, _)
\* the first loop of remove_all_by from position i on: to_remove so far is acc
RemoveAllScan(H, w, criteria, i, acc) ==
    IF i > Len(H.wraps[w].items) THEN [h |-> H, to_remove |-> acc]
    ELSE IF H.wraps[w].items[i].k = "node"
    THEN RemoveAllNext(w, criteria, i, acc, H.wraps[w].items[i],
                       MatchNode(H, H.wraps[w].items[i].v, criteria, 1))
    ELSE IF H.wraps[w].items[i].k = "dict"
    THEN RemoveAllNext(w, criteria, i, acc, H.wraps[w].items[i],
                       [h |-> H, m |-> MatchDict(H.wraps[w].items[i].v, criteria)])
    ELSE RemoveAllScan(H, w, criteria, i + 1, acc)

\* variant of RemoveAllNext that stops collecting at the first match
RemoveAllNextFirst(w, criteria, i, acc, item, r) ==
    IF r.m THEN [h |-> r.h, to_remove |-> Append(acc, item)]
    ELSE RemoveAllScan(r.h, w, criteria, i + 1, acc)

\* if the item matched: to_remove.append(item)
RemoveAllNext(w, criteria, i, acc, item, r) ==
    RemoveAllScan(r.h, w, criteria, i + 1, IF r.m THEN Append(acc, item) ELSE acc)

\* the second loop of remove_all_by and its return value len(to_remove)
RemoveAllApply(w, r) ==
    [h |-> [r.h EXCEPT !.wraps[w].items = RemoveEach(@, r.to_remove, 1)],
     ret |-> Len(r.to_remove)]

\* ListFieldWrapper.remove_all_by(**criteria)
RemoveAllBy(H, w, criteria) == RemoveAllApply(w, RemoveAllScan(H, w, criteria, 1, <<>>))

\* variant of RemoveAt without the range test: del self[index] as Python's list
\* does it, a negative index counting from the end
RemoveAtUnguarded(H, w, index) ==
    IF index >= Len(H.wraps[w].items) \/ index < 0 - Len(H.wraps[w].items)
    THEN [h |-> H, e |-> Raise("IndexError", 0)]
    ELSE [h |-> [H EXCEPT !.wraps[w].items =
                    DelAt(@, IF index < 0 THEN Len(@) + index + 1 ELSE index + 1)],
          e |-> OK]

\* ListFieldWrapper.remove_at(index)
RemoveAt(H, w, index) ==
    IF index < 0 \/ index >= Len(H.wraps[w].items)
    THEN [h |-> H, e |-> Raise("IndexError", 0)]
    ELSE [h |-> [H EXCEPT !.wraps[w].items = DelAt(@, index + 1)], e |-> OK]

\* ---------------------------------------------------------------- the collection
\* St is the collection as one record: its documents and its ObjectId counter
Store == [docs |-> docs, oids |-> oids]

\* a document matches a filter of equalities (a missing key matches null)
MatchesFilter(doc, filter) ==
    \A i \in 1..Len(filter.v) : DictGet(doc.v, filter.v[i][1]) = filter.v[i][2]

\* the positions of the documents a filter selects
Found(d, filter) == {j \in 1..Len(d) : MatchesFilter(d[j], filter)}

\* the position of the first document a filter selects, 0 if there is none
FirstFound(d, filter) ==
    IF Found(d, filter) = {} THEN 0
    ELSE CHOOSE j \in Found(d, filter) : \A l \in Found(d, filter) : j <= l

\* Collection.find_one(filter): a copy of the first matching document or None
find_one(St, filter) ==
    IF FirstFound(St.docs, filter) = 0 THEN None
    ELSE St.docs[FirstFound(St.docs, filter)]

\* the pairs of a plain map without the key
DelKey(pairs, key) == SelectSeq(pairs, LAMBDA kv : kv[1] # key)

\* Collection.insert_one(document): a document without _id gets a new ObjectId
insert_one(St, doc) ==
    IF DictHas(doc.v, "_id") THEN [St EXCEPT !.docs = Append(@, doc)]
    ELSE [docs |-> Append(St.docs, Dict(<< <<"_id", ObjectId(St.oids + 1)>> >> \o doc.v)),
          oids |-> St.oids + 1]

\* Collection.replace_one(filter, replacement): the first matching document
\* becomes the replacement and keeps its _id; nothing happens without a match
replace_one(St, filter, doc) ==
    IF FirstFound(St.docs, filter) = 0 THEN St
    ELSE [St EXCEPT !.docs[FirstFound(St.docs, filter)] =
             Dict(<< <<"_id", DictGet(@.v, "_id")>> >> \o DelKey(doc.v, "_id"))]

\* Collection.delete_one(filter)
delete_one(St, filter) ==
    IF FirstFound(St.docs, filter) = 0 THEN St
    ELSE [St EXCEPT !.docs = DelAt(@, FirstFound(St.docs, filter))]

\* the filter {"_id": value}
ById(value) == Dict(<< <<"_id", value>> >>)

\* a document as a _data dict
AsData(doc) == [key \in {doc.v[i][1] : i \in 1..Len(doc.v)} |-> DictGet(doc.v, key)]

\* ---------------------------------------------------------------- persistence
\* hasattr(self, name) given what the read of name did
HasAttr(r) == r.e.e = "ok"

\* save(), last step: replace_one when the node has an _id, else insert_one
SavePersist(St, n, r) ==
    IF Overflowed(to_dict(r.h, n))
    THEN [h |-> r.h, e |-> Raise("RecursionError", 0), s |-> St]
    ELSE IF HasAttr(r)
    THEN [h |-> r.h, e |-> OK, s |-> replace_one(St, ById(r.ret), to_dict(r.h, n))]
    ELSE [h |-> r.h, e |-> OK, s |-> insert_one(St, to_dict(r.h, n))]

\* save() from `if hasattr(self, '_id')` on
SaveStore(H, St, n) == SavePersist(St, n, GetAttr(H, n, "_id"))

\* save() after self.created_at = self.last_modified returned or raised
SaveCreatedSet(St, n, r) ==
    IF r.e.e # "ok" THEN [h |-> r.h, e |-> r.e, s |-> St]
    ELSE SaveStore(r.h, St, n)

\* save() after hasattr(self, 'created_at') read the attribute
SaveCreated(St, n, r) ==
    IF HasAttr(r) THEN SaveStore(r.h, St, n)
    ELSE SaveCreatedSet(St, n, SetAttr(r.h, n, "created_at", r.h.data[n]["last_modified"]))

\* save() after self.last_modified = datetime.utcnow() returned or raised
SaveModified(St, n, r) ==
    IF r.e.e # "ok" THEN [h |-> r.h, e |-> r.e, s |-> St]
    ELSE SaveCreated(St, n, GetAttr(r.h, n, "created_at"))

\* MongoModel.save at time t, with the class attribute timestamps_enabled
Save(H, St, n, t, enabled) ==
    IF enabled THEN SaveModified(St, n, SetAttr(H, n, "last_modified", Date(t)))
    ELSE SaveStore(H, St, n)

\* MongoModel.refresh
Refresh(H, St, n) ==
    IF "_id" \notin DOMAIN H.data[n] THEN [h |-> H, e |-> Raise("KeyError", 0)]
    ELSE IF find_one(St, ById(H.data[n]["_id"])) = None THEN [h |-> H, e |-> OK]
    ELSE [h |-> [H EXCEPT !.data[n] = AsData(find_one(St, ById(H.data[n]["_id"])))],
          e |-> OK]

\* clone() after self._id was read
CloneFound(St, n, r) ==
    IF r.e.e # "ok" THEN [h |-> r.h, e |-> r.e, node |-> 0]
    ELSE IF find_one(St, ById(r.ret)) = None
    THEN [h |-> r.h, e |-> Raise("ValueError", 0), node |-> 0]
    ELSE from_dict(r.h, r.h.cls[n], Dict(DelKey(find_one(St, ById(r.ret)).v, "_id")))

\* MongoModel.clone
Clone(H, St, n) == CloneFound(St, n, GetAttr(H, n, "_id"))

\* MongoModel.delete
Delete(H, St, n) ==
    IF "_id" \notin DOMAIN H.data[n] THEN [s |-> St, e |-> Raise("KeyError", 0)]
    ELSE [s |-> delete_one(St, ById(H.data[n]["_id"])), e |-> OK]

\* MongoModel.find_one
FindOne(H, St, c, filter) ==
    IF find_one(St, filter) = None THEN [h |-> H, e |-> OK, node |-> 0]
    ELSE from_dict(H, c, find_one(St, filter))

RECURSIVE FindEach(_, _, _, _, _), FindEachNext(_, _, _, _, _)
\* [cls.from_dict(doc) for doc in cursor] from the i-th document of the cursor on
FindEach(H, c, found, i, acc) ==
    IF i > Len(found) THEN [h |-> H, e |-> OK, ret |-> PList(acc)]
    ELSE FindEachNext(c, found, i, acc, from_dict(H, c, found[i]))

FindEachNext(c, found, i, acc, r) ==
    IF r.e.e # "ok" THEN [h |-> r.h, e |-> r.e, ret |-> None]
    ELSE FindEach(r.h, c, found, i + 1, Append(acc, NodeRef(r.node)))

\* MongoModel.find_many(filter), without sort or limit
FindMany(H, St, c, filter) ==
    FindEach(H, c, SelectSeq(St.docs, LAMBDA doc : MatchesFilter(doc, filter)), 1, <<>>)

\* ---------------------------------------------------------------- the calls a client makes
\* the record of a call; fresh: the read found the name unset; again: the read
\* repeats the call before it, which was a fresh read of the same name
NoOp == [kind |-> "init", target |-> 0, name |-> "", value |-> None, args |-> <<>>,
         e |-> OK, ret |-> None, fresh |-> FALSE, again |-> FALSE]

Scalars == {None, I(1), S("a"), S("z"), B(TRUE)}

\* plain maps a client assigns (the last kind carries a node it already holds)
Dicts(H) ==
    {Dict(<<>>),
     Dict(<< <<"diagnosed", S("z")>> >>),
     Dict(<< <<"physician", Dict(<< <<"name", S("z")>> >>)>> >>),
     Dict(<< <<"conditions", PList(<<Dict(<< <<"name", S("a")>> >>)>>)>> >>)}
    \cup {Dict(<< <<"physician", NodeRef(m)>>, <<"blood", S("z")>> >>) :
            m \in {x \in NodesOf(H) : H.cls[x] = "Physician"}}

Lists(H) ==
    {PList(<<>>), PList(<<S("a"), S("z")>>), PList(<<S("b"), S("a")>>), PList(<<S("a"), I(1)>>),
     PList(<<Dict(<< <<"diagnosed", S("z")>> >>)>>),
     PList(<<Dict(<< <<"name", S("a")>> >>), Dict(<< <<"diagnosed", S("z")>> >>)>>)}
    \cup {PList(<<NodeRef(m)>>) : m \in {x \in NodesOf(H) : H.cls[x] = "Condition"}}

Values(H) == Scalars \cup {NodeRef(m) : m \in NodesOf(H)} \cup Dicts(H) \cup Lists(H)

\* what a client writes under a name the schema does not declare
UnknownValues == {I(1), Dict(<<>>)}

Names(c) == Declared(c) \cup {"bogus"}

WriteValues(H, c, name) == IF name \in Declared(c) THEN Values(H) ELSE UnknownValues

\* the calls of add(): <<args, kwargs>>
AddCalls(H) ==
    {<< <<>>, <<>> >>,
     << <<>>, << <<"diagnosed", S("z")>> >> >>,
     << <<>>, << <<"name", S("a")>>, <<"diagnosed", I(1)>> >> >>,
     << <<Dict(<< <<"diagnosed", S("a")>> >>)>>, <<>> >>,
     << <<Dict(<< <<"name", S("a")>> >>), Dict(<< <<"name", S("b")>> >>)>>, <<>> >>,
     << <<PList(<<Dict(<<>>), Dict(<< <<"diagnosed", S("z")>> >>)>>)>>, <<>> >>,
     << <<I(1)>>, <<>> >>,
     << <<Dict(<< <<"diagnosed", S("a")>> >>)>>, << <<"diagnosed", S("z")>> >> >>}
    \cup {<< <<NodeRef(m)>>, <<>> >> : m \in NodesOf(H)}

Criteria ==
    {<<>>, << <<"diagnosed", S("z")>> >>,
     << <<"name", S("a")>>, <<"diagnosed", S("z")>> >>,
     << <<"name", None>> >>}

\* the positions a client passes to remove_at: one before the first, every
\* position of the list, and one past the last
Indexes(H, w) == (0 - 1)..Len(H.wraps[w].items)

\* the keyword data the root document is constructed with
InitDocs == {<<>>, << <<"health", Dict(<<>>)>> >>}

EmptyHeap == [cls |-> <<>>, data |-> <<>>, parent |-> <<>>, parent_key |-> <<>>,
              wraps |-> <<>>]

\* ---------------------------------------------------------------- state machine
InitFrom(r) ==
    /\ cls = r.h.cls
    /\ data = r.h.data
    /\ parent = r.h.parent
    /\ parent_key = r.h.parent_key
    /\ wraps = r.h.wraps
    /\ op = NoOp
    /\ steps = 0
    /\ docs = <<>>
    /\ oids = 0
    /\ now = 0
    /\ timestamps_enabled = TRUE

\* People(**doc): the root document a client starts from
Init == \E doc \in InitDocs : InitFrom(Construct(EmptyHeap, "People", doc))

\* a call is made while no exception has ended the run and within k steps
Within(k) == op.e.e = "ok" /\ steps < k

CanCall == Within(MaxSteps)

\* the heap the call leaves behind and the record of the call
CommitHeap(h, call, nodes) ==
    /\ Len(h.cls) <= nodes
    /\ Len(h.wraps) <= MaxWraps
    /\ cls' = h.cls
    /\ data' = h.data
    /\ parent' = h.parent
    /\ parent_key' = h.parent_key
    /\ wraps' = h.wraps
    /\ op' = call
    /\ steps' = steps + 1

\* a call on the model objects alone: the collection is not touched
Commit(h, call) == CommitHeap(h, call, MaxNodes) /\ UNCHANGED storevars

NewDone(c, r) ==
    Commit(r.h, [NoOp EXCEPT !.kind = "new", !.name = c, !.e = r.e, !.ret = NodeRef(r.node)])

\* c(): a client constructs an empty node of class c
New(c) == CanCall /\ NewDone(c, Construct(Heap, c, <<>>))

ReadDone(n, name, r) ==
    Commit(r.h, [NoOp EXCEPT !.kind = "read", !.target = n, !.name = name,
                             !.e = r.e, !.ret = r.ret,
                             !.fresh = name \notin DOMAIN data[n],
                             !.again = /\ op.kind = "read" /\ op.fresh
                                       /\ op.target = n /\ op.name = name])

\* n.name: attribute read
Read(n, name) == CanCall /\ ReadDone(n, name, GetAttr(Heap, n, name))

WriteDone(n, name, value, r) ==
    Commit(r.h, [NoOp EXCEPT !.kind = "write", !.target = n, !.name = name,
                             !.value = value, !.e = r.e])

\* n.name = value: attribute write
Write(n, name, value) == CanCall /\ WriteDone(n, name, value, SetAttr(Heap, n, name, value))

AddDone(w, args, kwargs, r) ==
    Commit(r.h, [NoOp EXCEPT !.kind = "add", !.target = w, !.args = args,
                             !.value = Dict(kwargs), !.e = r.e, !.ret = r.ret])

\* w.add(*args, **kwargs)
AddCall(w, args, kwargs) == CanCall /\ AddDone(w, args, kwargs, Add(Heap, w, args, kwargs))

RemoveByDone(w, criteria, r) ==
    Commit(r.h, [NoOp EXCEPT !.kind = "remove_by", !.target = w,
                             !.value = Dict(criteria), !.ret = B(r.ret)])

\* w.remove_by(**criteria)
RemoveByCall(w, criteria) == CanCall /\ RemoveByDone(w, criteria, RemoveBy(Heap, w, criteria))

RemoveAllByDone(w, criteria, r) ==
    Commit(r.h, [NoOp EXCEPT !.kind = "remove_all_by", !.target = w,
                             !.value = Dict(criteria), !.ret = I(r.ret)])

\* w.remove_all_by(**criteria)
RemoveAllByCall(w, criteria) ==
    CanCall /\ RemoveAllByDone(w, criteria, RemoveAllBy(Heap, w, criteria))

RemoveAtDone(w, index, r) ==
    Commit(r.h, [NoOp EXCEPT !.kind = "remove_at", !.target = w,
                             !.value = I(index), !.e = r.e])

\* w.remove_at(index)
RemoveAtCall(w, index) == CanCall /\ RemoveAtDone(w, index, RemoveAt(Heap, w, index))

Next ==
    \/ \E c \in Classes : New(c)
    \/ \E n \in NodesOf(Heap) : \E name \in Names(cls[n]) : Read(n, name)
    \/ \E n \in NodesOf(Heap) : \E name \in Names(cls[n]) :
          \E value \in WriteValues(Heap, cls[n], name) : Write(n, name, value)
    \/ \E w \in 1..Len(wraps) : \E call \in AddCalls(Heap) : AddCall(w, call[1], call[2])
    \/ \E w \in 1..Len(wraps) : \E criteria \in Criteria : RemoveByCall(w, criteria)
    \/ \E w \in 1..Len(wraps) : \E criteria \in Criteria : RemoveAllByCall(w, criteria)
    \/ \E w \in 1..Len(wraps) : \E index \in Indexes(Heap, w) : RemoveAtCall(w, index)

Spec == Init /\ [][Next]_vars

\* ---------------------------------------------------------------- a client that only assigns
\* what the client assigns: plain data and lists of the elements it holds
AssignedValues(H) ==
    {None, S("z"), Dict(<<>>),
     Dict(<< <<"conditions", PList(<<Dict(<<>>)>>)>> >>)}
    \cup {PList(<<NodeRef(m)>>) : m \in {x \in NodesOf(H) : H.cls[x] = "Condition"}}

InitWrites == InitFrom(Construct(EmptyHeap, "People", << <<"health", Dict(<<>>)>> >>))

\* n.name = value, in a longer run of assignments
WriteAgain(n, name, value) ==
    Within(MaxWriteSteps) /\ WriteDone(n, name, value, SetAttr(Heap, n, name, value))

NextWrites ==
    \E n \in NodesOf(Heap) : \E name \in Declared(cls[n]) :
        \E value \in AssignedValues(Heap) : WriteAgain(n, name, value)

SpecWrites == InitWrites /\ [][NextWrites]_vars

\* ---------------------------------------------------------------- a client of the collection
\* the model class and keyword data of the document the client starts from
StoreInits ==
    {<<"People", <<>> >>, <<"People", << <<"health", Dict(<<>>)>> >> >>, <<"Event", <<>> >>}

InitStore == \E i \in StoreInits : InitFrom(Construct(EmptyHeap, i[1], i[2]))

\* the nodes of the stored model class
Roots(H) == {n \in NodesOf(H) : H.cls[n] \in StoredClasses}

\* what the client assigns to a stored document
StoreWrites == {<<"age", I(1)>>, <<"gender", S("a")>>}

\* the filters the client queries with
Filters == {Dict(<<>>)} \cup {ById(ObjectId(k)) : k \in 1..MaxDocs}

StoreCall == Within(MaxStoreSteps)

\* the heap and the collection a call leaves behind, and the record of the call
CommitStore(h, call, St) ==
    /\ CommitHeap(h, call, MaxStoreNodes)
    /\ Len(St.docs) <= MaxDocs
    /\ docs' = St.docs
    /\ oids' = St.oids
    /\ UNCHANGED <<now, timestamps_enabled>>

SaveDone(n, r) ==
    CommitStore(r.h, [NoOp EXCEPT !.kind = "save", !.target = n, !.value = Date(now),
                                  !.e = r.e], r.s)

\* n.save()
SaveCall(n) == StoreCall /\ SaveDone(n, Save(Heap, Store, n, now, timestamps_enabled))

RefreshDone(n, r) ==
    CommitStore(r.h, [NoOp EXCEPT !.kind = "refresh", !.target = n, !.e = r.e], Store)

\* n.refresh()
RefreshCall(n) == StoreCall /\ RefreshDone(n, Refresh(Heap, Store, n))

CloneDone(n, r) ==
    CommitStore(r.h, [NoOp EXCEPT !.kind = "clone", !.target = n, !.e = r.e,
                                  !.ret = IF r.e.e = "ok" THEN NodeRef(r.node) ELSE None],
                Store)

\* n.clone()
CloneCall(n) == StoreCall /\ CloneDone(n, Clone(Heap, Store, n))

DeleteDone(n, r) ==
    CommitStore(Heap, [NoOp EXCEPT !.kind = "delete", !.target = n, !.e = r.e], r.s)

\* n.delete()
DeleteCall(n) == StoreCall /\ DeleteDone(n, Delete(Heap, Store, n))

FindOneDone(filter, r) ==
    CommitStore(r.h, [NoOp EXCEPT !.kind = "find_one", !.value = filter, !.e = r.e,
                                  !.ret = IF r.e.e = "ok" /\ r.node # 0
                                          THEN NodeRef(r.node) ELSE None],
                Store)

\* cls.find_one(filter) on the class of the document the client started from
FindOneCall(filter) == StoreCall /\ FindOneDone(filter, FindOne(Heap, Store, cls[1], filter))

FindManyDone(filter, r) ==
    CommitStore(r.h, [NoOp EXCEPT !.kind = "find_many", !.value = filter, !.e = r.e,
                                  !.ret = r.ret], Store)

\* cls.find_many(filter)
FindManyCall(filter) ==
    StoreCall /\ FindManyDone(filter, FindMany(Heap, Store, cls[1], filter))

StoreWriteDone(n, name, value, r) ==
    CommitStore(r.h, [NoOp EXCEPT !.kind = "write", !.target = n, !.name = name,
                                  !.value = value, !.e = r.e], Store)

\* n.name = value on a stored document
StoreWrite(n, name, value) ==
    StoreCall /\ StoreWriteDone(n, name, value, SetAttr(Heap, n, name, value))

\* cls.timestamps_enabled = b
SetTimestamps(b) ==
    /\ StoreCall
    /\ b # timestamps_enabled
    /\ timestamps_enabled' = b
    /\ op' = [NoOp EXCEPT !.kind = "timestamps_enabled", !.value = B(b)]
    /\ steps' = steps + 1
    /\ UNCHANGED <<cls, data, parent, parent_key, wraps, docs, oids, now>>

\* time passes between two calls
Tick ==
    /\ op.e.e = "ok"
    /\ now < MaxTime
    /\ now' = now + 1
    /\ op' = [NoOp EXCEPT !.kind = "tick"]
    /\ UNCHANGED <<cls, data, parent, parent_key, wraps, steps, docs, oids,
                   timestamps_enabled>>

NextStore ==
    \/ \E n \in Roots(Heap) : SaveCall(n)
    \/ \E n \in Roots(Heap) : RefreshCall(n)
    \/ \E n \in Roots(Heap) : CloneCall(n)
    \/ \E n \in Roots(Heap) : DeleteCall(n)
    \/ \E filter \in Filters : FindOneCall(filter)
    \/ \E filter \in Filters : FindManyCall(filter)
    \/ \E n \in Roots(Heap) : \E w \in StoreWrites : StoreWrite(n, w[1], w[2])
    \/ \E b \in BOOLEAN : SetTimestamps(b)
    \/ Tick

SpecStore == InitStore /\ [][NextStore]_vars

\* ---------------------------------------------------------------- reserved names
\* the names __setattr__ hands to object.__setattr__
ReservedNames ==
    {"_schema", "_collection_name", "_db_name", "_db", "_data", "_parent", "_parent_key"}

\* super().__setattr__(name, value): the attribute is set on the object itself
SetReserved(H, n, name, value) ==
    [h |-> CASE name = "_parent" ->
                  [H EXCEPT !.parent[n] = IF value.k = "node" THEN value.v ELSE 0]
             [] name = "_parent_key" ->
                  [H EXCEPT !.parent_key[n] = IF value.k = "str" THEN value.v ELSE ""]
             [] name = "_data" -> [H EXCEPT !.data[n] = AsData(value)]
             [] OTHER -> H,
     e |-> OK]

\* a client that writes declared names, underscore names and reserved names:
\* a People document with two nested levels, and an Account, whose schema
\* declares _id and a nullable object field
NamesInits ==
    {<<"People", << <<"health", Dict(<< <<"physician", Dict(<<>>)>> >>)>> >> >>,
     <<"Account", <<>> >>}

InitNames == \E i \in NamesInits : InitFrom(Construct(EmptyHeap, i[1], i[2]))

NameValues ==
    {None, I(1), S("a"), ObjectId(1), Dict(<<>>), Dict(<< <<"blood", S("a")>> >>)}

ReservedWrites == {<<"_parent", None>>, <<"_db_name", S("a")>>, <<"_data", Dict(<<>>)>>}

\* n.name = value for a reserved name
ReservedWrite(n, name, value) ==
    /\ CanCall
    /\ name \in ReservedNames
    /\ Commit(SetReserved(Heap, n, name, value).h,
              [NoOp EXCEPT !.kind = "write_reserved", !.target = n, !.name = name,
                           !.value = value, !.e = SetReserved(Heap, n, name, value).e])

NextNames ==
    \/ \E n \in NodesOf(Heap) : \E name \in Declared(cls[n]) : \E value \in NameValues :
          Write(n, name, value)
    \/ \E n \in NodesOf(Heap) : \E w \in ReservedWrites : ReservedWrite(n, w[1], w[2])

SpecNames == InitNames /\ [][NextNames]_vars

\* ---------------------------------------------------------------- node graphs
\* a client that assigns the nodes it holds to fields of one another, goes on
\* after an exception, and serializes: People(health={}) and People()
InitCycles == \E doc \in InitDocs : InitFrom(Construct(EmptyHeap, "People", doc))

\* what the client assigns: a node or None under a name the schema does not
\* declare (no validation applies), a string under a declared name
CycleWrites(H, c) ==
    {<<"bogus", NodeRef(m)>> : m \in NodesOf(H)} \cup {<<"bogus", None>>}
    \cup {<<name, S("a")>> : name \in Declared(c)}

\* n.name = value
CycleWrite(n, name, value) ==
    /\ steps < MaxCycleSteps
    /\ WriteDone(n, name, value, SetAttr(Heap, n, name, value))

\* n.to_dict()
ToDictCall(n) ==
    /\ steps < MaxCycleSteps
    /\ Commit(Heap, [NoOp EXCEPT !.kind = "to_dict", !.target = n,
                                 !.ret = to_dict(Heap, n),
                                 !.e = IF Overflowed(to_dict(Heap, n))
                                       THEN Raise("RecursionError", 0) ELSE OK])

NextCycles ==
    \/ \E n \in NodesOf(Heap) : \E w \in CycleWrites(Heap, cls[n]) : CycleWrite(n, w[1], w[2])
    \/ \E n \in NodesOf(Heap) : ToDictCall(n)

SpecCycles == InitCycles /\ [][NextCycles]_vars

\* ---------------------------------------------------------------- the HTTP API
\* a route of the router: a method, a path under the collection prefix (one
\* literal segment, "" for "/", or one path parameter) and its handler
Route(method, param, lit, handler) ==
    [method |-> method, param |-> param, lit |-> lit, handler |-> handler]

\* add_api_routes: the routes in the order the decorators register them
Routes(read_only) ==
    <<Route("GET", FALSE, "", "list_docs"),
      Route("GET", TRUE, "id", "get_doc")>>
    \o (IF read_only THEN <<>>
        ELSE <<Route("POST", FALSE, "", "create_doc"),
               Route("PUT", TRUE, "id", "replace_doc"),
               Route("PATCH", TRUE, "id", "update_doc"),
               Route("DELETE", TRUE, "id", "delete_doc")>>)
    \o <<Route("POST", FALSE, "query", "query_docs"),
         Route("POST", FALSE, "aggregate", "run_aggregate"),
         Route("POST", FALSE, "distinct", "get_distinct"),
         Route("GET", FALSE, "count", "count_docs")>>

\* does the path of the route match the request path /<seg>: a path
\* parameter matches any non-empty segment
PathMatches(route, seg) == IF route.param THEN seg # "" ELSE seg = route.lit

\* the router: the first route in registration order that matches path and
\* method handles the request; a path that matches under another method only
\* is answered 405, a path no route matches 404
Dispatch(routes, method, seg) ==
    LET path == {i \in 1..Len(routes) : PathMatches(routes[i], seg)}
        full == {i \in path : routes[i].method = method}
    IN  IF full # {} THEN routes[CHOOSE i \in full : \A j \in full : i <= j].handler
        ELSE IF path # {} THEN "405" ELSE "404"

\* the path segments that are the hexadecimal form of an ObjectId: the i-th
\* one is the form of the i-th id the collection generates
OidSegs == <<"oid1", "oid2", "oid3">>

\* ObjectId(id): the id, or None where the constructor raises InvalidId
ParseOid(seg) ==
    IF \E i \in 1..Len(OidSegs) : OidSegs[i] = seg
    THEN ObjectId(CHOOSE i \in 1..Len(OidSegs) : OidSegs[i] = seg)
    ELSE None

\* Model.count(filter)
Count(St, filter) == Cardinality(Found(St.docs, filter))

\* Model.get(_id)
Get(St, oid) == FindOne(EmptyHeap, St, "People", ById(oid))

\* the answer to a request: the handler that ran, the status code, the count
\* in the body (None when the body has none), and the collection it leaves
Resp(St, handler, status, count) ==
    [s |-> St,
     ret |-> Dict(<< <<"handler", S(handler)>>, <<"status", I(status)>>,
                     <<"count", count>> >>)]

list_docs(St) == Resp(St, "list_docs", 200, I(Count(St, Dict(<<>>))))

\* an exception ObjectId(id) or Model.get raises is not caught: 500
get_doc(St, seg) ==
    LET Found1(r) ==
            IF r.e.e # "ok" THEN Resp(St, "get_doc", 500, None)
            ELSE IF r.node = 0 THEN Resp(St, "get_doc", 404, None)
            ELSE Resp(St, "get_doc", 200, None)
    IN  IF ParseOid(seg) = None THEN Resp(St, "get_doc", 500, None)
        ELSE Found1(Get(St, ParseOid(seg)))

\* any exception of from_dict or save is answered 422
create_doc(St, body, t, enabled) ==
    LET Saved(r) ==
            IF r.e.e # "ok" THEN Resp(St, "create_doc", 422, None)
            ELSE Resp(r.s, "create_doc", 201, None)
        Built(r) ==
            IF r.e.e # "ok" THEN Resp(St, "create_doc", 422, None)
            ELSE Saved(Save(r.h, St, r.node, t, enabled))
    IN  Built(from_dict(EmptyHeap, "People", body))

\* any exception of from_dict, ObjectId(id), doc._id = ... or save is answered 422
replace_doc(St, seg, body, t, enabled) ==
    LET Saved(r) ==
            IF r.e.e # "ok" THEN Resp(St, "replace_doc", 422, None)
            ELSE Resp(r.s, "replace_doc", 200, None)
        IdSet(n, r) ==
            IF r.e.e # "ok" THEN Resp(St, "replace_doc", 422, None)
            ELSE Saved(Save(r.h, St, n, t, enabled))
        Built(r) ==
            IF r.e.e # "ok" \/ ParseOid(seg) = None THEN Resp(St, "replace_doc", 422, None)
            ELSE IdSet(r.node, SetAttr(r.h, r.node, "_id", ParseOid(seg)))
    IN  Built(from_dict(EmptyHeap, "People", body))

\* Model.get is outside the try block; the setattr loop and save are inside
update_doc(St, seg, body, t, enabled) ==
    LET Saved(r) ==
            IF r.e.e # "ok" THEN Resp(St, "update_doc", 422, None)
            ELSE Resp(r.s, "update_doc", 200, None)
        Set(r) ==
            IF r.e.e # "ok" THEN Resp(St, "update_doc", 422, None)
            ELSE Saved(Save(r.h, St, r.node, t, enabled))
        Found1(r) ==
            IF r.e.e # "ok" THEN Resp(St, "update_doc", 500, None)
            ELSE IF r.node = 0 THEN Resp(St, "update_doc", 404, None)
            ELSE Set(SetAll(r.h, r.node, body.v, 1))
    IN  IF ParseOid(seg) = None THEN Resp(St, "update_doc", 500, None)
        ELSE Found1(Get(St, ParseOid(seg)))

delete_doc(St, seg) ==
    LET Deleted(r) ==
            IF r.e.e # "ok" THEN Resp(St, "delete_doc", 500, None)
            ELSE Resp(r.s, "delete_doc", 200, None)
        Found1(r) ==
            IF r.e.e # "ok" THEN Resp(St, "delete_doc", 500, None)
            ELSE IF r.node = 0 THEN Resp(St, "delete_doc", 404, None)
            ELSE Deleted(Delete(r.h, St, r.node))
    IN  IF ParseOid(seg) = None THEN Resp(St, "delete_doc", 500, None)
        ELSE Found1(Get(St, ParseOid(seg)))

\* the body is QueryParams, whose filter defaults to {}
query_docs(St, body) ==
    Resp(St, "query_docs", 200,
         I(Count(St, IF DictHas(body.v, "filter") THEN DictGet(body.v, "filter")
                     ELSE Dict(<<>>))))

\* run_aggregate / get_distinct: the body must carry the required field
run_aggregate(St, body) ==
    Resp(St, "run_aggregate", IF DictHas(body.v, "pipeline") THEN 200 ELSE 422, None)

get_distinct(St, body) ==
    Resp(St, "get_distinct", IF DictHas(body.v, "field") THEN 200 ELSE 422, None)

\* count_docs: the filter query parameter, parsed
count_docs(St, filter) == Resp(St, "count_docs", 200, I(Count(St, filter)))

\* the application answering <method> /<name>/<seg>; body is the JSON body,
\* or for GET the parsed filter parameter
Handle(St, method, seg, body, t, enabled) ==
    LET By(handler) ==
            CASE handler = "list_docs" -> list_docs(St)
              [] handler = "get_doc" -> get_doc(St, seg)
              [] handler = "create_doc" -> create_doc(St, body, t, enabled)
              [] handler = "replace_doc" -> replace_doc(St, seg, body, t, enabled)
              [] handler = "update_doc" -> update_doc(St, seg, body, t, enabled)
              [] handler = "delete_doc" -> delete_doc(St, seg)
              [] handler = "query_docs" -> query_docs(St, body)
              [] handler = "run_aggregate" -> run_aggregate(St, body)
              [] handler = "get_distinct" -> get_distinct(St, body)
              [] handler = "count_docs" -> count_docs(St, body)
              [] handler = "405" -> Resp(St, "", 405, None)
              [] OTHER -> Resp(St, "", 404, None)
    IN  By(Dispatch(Routes(FALSE), method, seg))

Methods == {"GET", "POST", "PUT", "PATCH", "DELETE"}

\* the paths requested under the collection prefix
Segs == {"", "count", "query", "aggregate", "distinct", "oid1", "oid2"}

\* the JSON bodies and filters sent
Bodies == {Dict(<<>>), Dict(<< <<"age", I(1)>> >>), Dict(<< <<"age", S("a")>> >>)}

InitApi == InitFrom([h |-> EmptyHeap])

\* one request and its answer; the objects a handler builds die with it
HttpRequest(method, seg, body) ==
    LET Done(r) ==
            /\ Len(r.s.docs) <= MaxDocs
            /\ docs' = r.s.docs
            /\ oids' = r.s.oids
            /\ op' = [NoOp EXCEPT !.kind = "http", !.name = method, !.args = <<S(seg)>>,
                                  !.value = body, !.ret = r.ret]
            /\ steps' = steps + 1
            /\ UNCHANGED <<cls, data, parent, parent_key, wraps, now, timestamps_enabled>>
    IN  /\ steps < MaxApiSteps
        /\ Done(Handle(Store, method, seg, body, now, timestamps_enabled))

NextApi == \E method \in Methods : \E seg \in Segs : \E body \in Bodies :
               HttpRequest(method, seg, body)

SpecApi == InitApi /\ [][NextApi]_vars

\* ---------------------------------------------------------------- properties
\* the heap after the step
HeapNext == [cls |-> cls', data |-> data', parent |-> parent',
             parent_key |-> parent_key', wraps |-> wraps']

Missing == [k |-> "missing", v |-> 0]

\* the value a plain map holds under a key, Missing if it has none
Lookup(d, key) ==
    IF d.k = "dict" /\ DictHas(d.v, key) THEN DictGet(d.v, key) ELSE Missing

\* the value of field name of node n, Missing if unset
Slot(H, n, name) == IF name \in DOMAIN H.data[n] THEN H.data[n][name] ELSE Missing

\* the nodes a value given to a write contains (plain maps and lists, two levels deep)
NodesIn2(value) ==
    IF value.k = "node" THEN {value.v}
    ELSE IF value.k = "list" THEN {value.v[i].v : i \in {j \in 1..Len(value.v) : value.v[j].k = "node"}}
    ELSE IF value.k = "dict"
    THEN {value.v[i][2].v : i \in {j \in 1..Len(value.v) : value.v[j][2].k = "node"}}
    ELSE {}

\* the nodes on the parent chain of n
RECURSIVE AncestorsUpTo(_, _, _)
AncestorsUpTo(H, n, fuel) ==
    IF H.parent[n] = 0 \/ fuel = 0 THEN {}
    ELSE {H.parent[n]} \cup AncestorsUpTo(H, H.parent[n], fuel - 1)

Ancestors(H, n) == AncestorsUpTo(H, n, Len(H.cls))

\* the last call succeeded
Succeeded == op.e.e = "ok"

\* the elements of a sequence
Range(seq) == {seq[i] : i \in 1..Len(seq)}

\* ---- C1
\* from_dict(T, to_dict(n)) followed by to_dict gives to_dict(n) again
RoundTrips(H, n) ==
    /\ from_dict(H, H.cls[n], to_dict(H, n)).e.e = "ok"
    /\ to_dict(from_dict(H, H.cls[n], to_dict(H, n)).h, Len(H.cls) + 1) = to_dict(H, n)

\* C1: round trip: in every state reached by successful calls, for every node
\* n, from_dict(type of n, to_dict(n)) succeeds and its to_dict equals to_dict(n).
C1_RoundTrip ==
    Succeeded => \A n \in NodesOf(Heap) : RoundTrips(Heap, n)

\* ---- C2
\* node m is held in field name of node n and its parent link says so, as a
\* read of n.name leaves it
ReachedByRead(H, n, name, m) ==
    /\ Slot(H, n, name) = NodeRef(m)
    /\ H.parent[m] = n
    /\ H.parent_key[m] = name

\* what C2 requires of one step
C2_Step ==
    \A r, c, g \in NodesOf(Heap) :
        (/\ cls[r] = "People" /\ ReachedByRead(Heap, r, "health", c)
         /\ cls[c] = "Health" /\ ReachedByRead(Heap, c, "physician", g)
         /\ op'.kind = "write" /\ op'.e.e = "ok"
         /\ op'.target = g /\ op'.name = "name" /\ op'.value.k \in {"str", "none"})
        => Lookup(Lookup(Lookup(to_dict(HeapNext, r), "health"), "physician"), "name")
              = op'.value

\* C2: dirty propagation: when root r holds child c in its object field and
\* c holds grandchild g in its object field, both wired as reads leave them,
\* a successful write of a scalar v to field f of g leaves to_dict(r) with v
\* at child/grandchild/f.
C2_DirtyPropagation == [][C2_Step]_vars

\* a text value was written to the grandchild that two reads from the root
\* created, and the root's plain map shows it
C2_Witness ==
    /\ op.kind = "write" /\ Succeeded /\ op.value = S("a") /\ op.name = "name"
    /\ Len(cls) = 3 /\ steps = 3
    /\ Slot(Heap, 1, "health") = NodeRef(2) /\ parent[2] = 1
    /\ Slot(Heap, 2, "physician") = NodeRef(3) /\ parent[3] = 2
    /\ op.target = 3
    /\ Lookup(Lookup(Lookup(to_dict(Heap, 1), "health"), "physician"), "name") = S("a")

\* ---- C3
\* what C3 requires of one step
C3_Step ==
    (op'.kind = "write" /\ op'.e.e \in {"TypeError", "ValueError"})
    => /\ data'[op'.target] = data[op'.target]
       /\ \A m \in {op'.target} \cup NodesIn2(op'.value) :
             parent'[m] = parent[m] /\ parent_key'[m] = parent_key[m]
       /\ \A a \in Ancestors(Heap, op'.target) : data'[a] = data[a]

\* C3: a write that fails validation leaves the field map of n, the parent
\* links of n and of every node in the value, and the field maps of the
\* ancestors of n as they were.
C3_AllOrNothing == [][C3_Step]_vars

\* ---- C4
\* fields declared with one primitive type or a union of them, and no enum
PrimitiveTypes == DOMAIN BSON_TYPE_MAP \ {"object", "array"}

IsPrimitiveField(c, name) ==
    /\ name \in Declared(c)
    /\ FieldSchema(c, name).bsonType.t # <<>>
    /\ \A i \in 1..Len(FieldSchema(c, name).bsonType.t) :
          FieldSchema(c, name).bsonType.t[i] \in PrimitiveTypes
    /\ ~FieldSchema(c, name).enum.has

\* the host kind of the value is the mapped kind of one of the declared types
KindDeclared(c, name, value) ==
    \E i \in 1..Len(FieldSchema(c, name).bsonType.t) :
        BSON_TYPE_MAP[FieldSchema(c, name).bsonType.t[i]] = value.k

\* what C4 requires of one step
C4_Step ==
    (/\ op'.kind = "write"
     /\ IsPrimitiveField(cls[op'.target], op'.name)
     /\ op'.value.k # "none")
    => IF KindDeclared(cls[op'.target], op'.name, op'.value)
       THEN op'.e.e = "ok"
       ELSE op'.e.e = "TypeError"

\* C4: type enforcement: a write of a non-null value to a field of primitive
\* type(s) succeeds if the value's host kind is the mapped kind of a declared
\* type, and fails with TypeError otherwise.
C4_TypeEnforcement == [][C4_Step]_vars

\* ---- C5
\* what C5 requires of one step
C5_Step ==
    (/\ op'.kind = "write"
     /\ FieldSchema(cls[op'.target], op'.name).enum.has
     /\ op'.value.k # "none")
    => IF op'.value.k = "list"
       THEN (\E i \in 1..Len(op'.value.v) : op'.value.v[i] \notin Range(EnumVals))
            => op'.e.e = "ValueError"
       ELSE IF op'.value \in Range(EnumVals)
       THEN op'.e.e = "ok"
       ELSE op'.e.e = "ValueError"

Unknown(n, name) == name \notin Declared(cls[n]) /\ name \notin DOMAIN data[n]

\* what C6 as claimed requires of one step
C6_OriginalStep ==
    (op'.kind \in {"read", "write"} /\ Unknown(op'.target, op'.name))
    => op'.e.e = "AttributeError" /\ data'[op'.target] = data[op'.target]

C6_Step ==
    /\ (op'.kind = "read" /\ Unknown(op'.target, op'.name))
       => op'.e.e = "AttributeError" /\ HeapNext = Heap
    /\ (op'.kind = "write" /\ Unknown(op'.target, op'.name))
       => /\ op'.e.e \notin {"AttributeError", "TypeError", "ValueError"}
          /\ Slot(HeapNext, op'.target, op'.name) = op'.value

C7_Step ==
    (/\ op'.kind = "read" /\ op'.again /\ op'.e.e = "ok"
     /\ \/ NestedClass(cls[op'.target], op'.name) # ""
        \/ ItemClass(cls[op'.target], op'.name) # "")
    => /\ op'.ret = op.ret
       /\ op'.ret.k \in {"node", "wrap"}
       /\ Slot(HeapNext, op'.target, op'.name) = op.ret

\* C7: auto-vivification idempotence: a read of an object field, or of an
\* array-of-objects field, that repeats the read which found the field unset
\* returns the instance the first read returned, and the field holds it.
C7_Idempotence == [][C7_Step]_vars

\* an object field was read twice in a row, the first read finding it unset
C7_Witness ==
    /\ op.kind = "read" /\ op.again /\ Succeeded
    /\ op.ret.k = "node" /\ NestedClass(cls[op.target], op.name) # ""
    /\ Slot(Heap, op.target, op.name) = op.ret

\* ---- C8
\* node e is an element of the list or container in field f of node o
HeldIn(H, o, f, e) ==
    /\ f \in DOMAIN H.data[o]
    /\ H.data[o][f].k \in {"list", "wrap"}
    /\ NodeRef(e) \in Range(ListItems(H, H.data[o][f]))

\* the nodes above o: each holds the one below it in the slot that one's parent
\* link names
RECURSIVE OwnersUpTo(_, _, _)
OwnersUpTo(H, n, fuel) ==
    IF H.parent[n] = 0 \/ fuel = 0 THEN {}
    ELSE IF Slot(H, H.parent[n], H.parent_key[n]) # NodeRef(n) THEN {}
    ELSE {H.parent[n]} \cup OwnersUpTo(H, H.parent[n], fuel - 1)

Owners(H, n) == OwnersUpTo(H, n, Len(H.cls))

\* what C8 requires of one step
C8_Step ==
    \A o \in NodesOf(Heap) : \A f \in DOMAIN data[o] :
        (/\ op'.kind = "write" /\ op'.e.e = "ok"
         /\ op'.value.k \in {"none", "int", "str", "bool"}
         /\ HeldIn(Heap, o, f, op'.target))
        => /\ data'[o][f] = data[o][f]
           /\ ListItems(HeapNext, data'[o][f]) = ListItems(Heap, data[o][f])
           /\ \A a \in {o} \cup Owners(Heap, o) : data'[a] = data[a]

\* C8: array identity stability: after a successful scalar write on an element
\* held in an array field f of owner o, the slot f of o refers to the same
\* container with the same elements in the same order, and no slot of o or of
\* an ancestor of o has been rewritten.
C8_ArrayStability == [][C8_Step]_vars

\* ---- C9
\* the elements a call of add supplies, in call order: the keyword data as one
\* plain map, or the positional arguments with a list argument spread out
RECURSIVE Spread(_, _)
Spread(H, args) ==
    IF args = <<>> THEN <<>>
    ELSE (IF args[1].k \in {"list", "wrap"} THEN ListItems(H, args[1]) ELSE <<args[1]>>)
         \o Spread(H, Tail(args))

Supplied(H, args, kwargs) ==
    IF kwargs # <<>> THEN <<Dict(kwargs)>> ELSE Spread(H, args)

\* the elements of seq after the first n
After(seq, n) == SubSeq(seq, n + 1, Len(seq))

\* node m of the heap after the step is what add makes of the supplied element x
AddedAs(x, m, w) ==
    /\ m.k = "node"
    /\ cls'[m.v] = wraps[w].item_class
    /\ parent'[m.v] = wraps[w].parent
    /\ parent_key'[m.v] = wraps[w].field_name
    /\ x.k = "node" => m = x
    /\ x.k = "dict" => /\ m.v > Len(cls)
                       /\ \A j \in 1..Len(x.v) : Slot(HeapNext, m.v, x.v[j][1]) = x.v[j][2]

\* what C9 requires of one step
C9_Step ==
    (/\ op'.kind = "add" /\ op'.e.e = "ok"
     /\ op'.args = <<>> \/ op'.value.v = <<>>)
    => LET w == op'.target
           old == wraps[w].items
           sup == Supplied(Heap, op'.args, op'.value.v)
           new == After(wraps'[w].items, Len(old))
       IN  /\ Len(wraps'[w].items) = Len(old) + Len(sup)
           /\ SubSeq(wraps'[w].items, 1, Len(old)) = old
           /\ \A i \in 1..Len(sup) : AddedAs(sup[i], new[i], w)
           /\ \A i, j \in 1..Len(sup) :
                 (i # j /\ sup[i].k = "dict" /\ sup[j].k = "dict") => new[i] # new[j]
           /\ \A i \in 1..Len(old) : data'[old[i].v] = data[old[i].v]
           /\ op'.ret = IF Len(sup) = 1 THEN new[1] ELSE PList(new)

\* C9: container insertion: a successful add with keyword data only, or with
\* positional arguments only (typed elements, plain maps, a list of them),
\* appends exactly the supplied elements in call order, each of the item class
\* with the container's owner and field as parent link, leaves the elements
\* held before as they were, and returns the one element added, else the list.
C9_Insertion == [][C9_Step]_vars

\* one element was added behind another one and returned
C9_Witness ==
    /\ op.kind = "add" /\ Succeeded /\ op.ret.k = "node"
    /\ Len(wraps[op.target].items) = 2
    /\ wraps[op.target].items[2] = op.ret
    /\ wraps[op.target].items[1] # op.ret
    /\ parent[op.ret.v] = wraps[op.target].parent

\* ---- C10
\* the value compared with a criterion: the stored one, None when unset
FieldOrNone(H, n, key) == IF key \in DOMAIN H.data[n] THEN H.data[n][key] ELSE None

\* every criterion key/value pair equals the element's field
Matches(H, item, criteria) ==
    /\ item.k = "node"
    /\ \A i \in 1..Len(criteria) :
          PyEq(FieldOrNone(H, item.v, criteria[i][1]), criteria[i][2])

\* seq without its j-th element
Without(seq, j) ==
    [i \in 1..(Len(seq) - 1) |-> IF i < j THEN seq[i] ELSE seq[i + 1]]

\* the least element of a non-empty set of numbers
Least(set) == CHOOSE x \in set : \A y \in set : x <= y

\* what C10 requires of one step
C10_Step ==
    (op'.kind = "remove_by")
    => LET w == op'.target
           items == wraps[w].items
           hits == {i \in 1..Len(items) : Matches(Heap, items[i], op'.value.v)}
       IN  IF hits # {}
           THEN op'.ret = B(TRUE) /\ wraps'[w].items = Without(items, Least(hits))
           ELSE op'.ret = B(FALSE) /\ wraps'[w].items = items

\* C10: remove_by removes the first element, in container order, whose fields
\* equal every criterion, keeps the others in order and returns true; when no
\* element matches it returns false and the container is as before.
C10_RemoveMatching == [][C10_Step]_vars

\* the second of two elements matched and was removed, the first one stayed
C10_Witness ==
    /\ op.kind = "remove_by" /\ op.ret = B(TRUE) /\ op.value.v # <<>>
    /\ Len(wraps[op.target].items) = 1
    /\ ~Matches(Heap, wraps[op.target].items[1], op.value.v)

\* ---- C11
\* an element of a container matches: a node by its fields, a plain map by its keys
MatchesItem(H, item, criteria) ==
    \/ Matches(H, item, criteria)
    \/ item.k = "dict" /\ MatchDict(item.v, criteria)

\* seq from position i on, without the positions in drop
RECURSIVE Kept(_, _, _)
Kept(seq, drop, i) ==
    IF i > Len(seq) THEN <<>>
    ELSE (IF i \in drop THEN <<>> ELSE <<seq[i]>>) \o Kept(seq, drop, i + 1)

\* what C11 requires of one step
C11_Step ==
    (op'.kind = "remove_all_by")
    => LET w == op'.target
           items == wraps[w].items
           hits == {i \in 1..Len(items) : MatchesItem(Heap, items[i], op'.value.v)}
       IN  /\ wraps'[w].items = Kept(items, hits, 1)
           /\ op'.ret = I(Cardinality(hits))
           /\ \A j \in 1..Len(wraps'[w].items) :
                 ~MatchesItem(HeapNext, wraps'[w].items[j], op'.value.v)

\* C11: remove_all_by removes every element whose fields equal every criterion
\* and no other element, returns the number of elements it removed, keeps the
\* remaining elements in their order, and leaves no matching element behind.
C11_RemoveAllMatching == [][C11_Step]_vars

\* two elements matched a non-empty criteria and both were removed
C11_Witness ==
    /\ op.kind = "remove_all_by" /\ op.ret = I(2) /\ op.value.v # <<>>
    /\ wraps[op.target].items = <<>>

\* ---- C12
\* what C12 requires of one step
C12_Step ==
    (op'.kind = "remove_at")
    => LET w == op'.target
           items == wraps[w].items
           index == op'.value.v
       IN  IF 0 <= index /\ index < Len(items)
           THEN op'.e.e = "ok" /\ wraps'[w].items = Without(items, index + 1)
           ELSE op'.e.e = "IndexError" /\ wraps' = wraps /\ data' = data

\* C12: remove_at(i) with 0 <= i < length removes the element at position i
\* and keeps the others in order; with any other index, negative or at least
\* the length, it raises IndexError and the container is as before.
C12_RemoveAt == [][C12_Step]_vars

\* a negative index on a container that has elements was refused
C12_Witness ==
    /\ op.kind = "remove_at" /\ op.e.e = "IndexError" /\ op.value.v < 0
    /\ wraps[op.target].items # <<>>

\* ---- C13
\* a declared field that is neither an object nor an array
IsScalarField(c, name) ==
    /\ name \in Declared(c)
    /\ NestedClass(c, name) = ""
    /\ FieldSchema(c, name).bsonType.t # <<"array">>

\* the plain map d has the key
HasKey(d, key) == d.k = "dict" /\ DictHas(d.v, key)

\* what C13 requires of one step
C13_Step ==
    (op'.kind \in {"read", "remove_by", "remove_all_by"})
    => \A n \in NodesOf(Heap) : \A name \in Declared(cls[n]) :
          (IsScalarField(cls[n], name) /\ HasKey(to_dict(HeapNext, n), name))
          => HasKey(to_dict(Heap, n), name)

\* C13: a scalar field that was never written stays absent from to_dict: no
\* read, and no criteria scan of remove_by or remove_all_by, adds the key of a
\* scalar field to the plain map of any node.
C13_UnsetStaysAbsent == [][C13_Step]_vars

\* ---- C14
\* a declared array field whose elements are not nodes of an item class
IsArrayOfScalars(c, name) ==
    /\ name \in Declared(c)
    /\ FieldSchema(c, name).bsonType.t = <<"array">>
    /\ ItemClass(c, name) = ""

\* the read of the step found no stored value under its name
FreshRead == op'.kind = "read" /\ op'.name \notin DOMAIN data[op'.target]

FreshScalarRead == FreshRead /\ IsScalarField(cls[op'.target], op'.name)

FreshArrayRead == FreshRead /\ IsArrayOfScalars(cls[op'.target], op'.name)

\* the read of the step returned value and stored it
ReadStored(value) ==
    /\ op'.e.e = "ok" /\ op'.ret = value
    /\ Slot(HeapNext, op'.target, op'.name) = value

\* what C14 as stated requires of one step
C14_OriginalStep == (FreshScalarRead \/ FreshArrayRead) => ReadStored(None)

\* C14 as stated: a read of an unset scalar field, or of an unset
\* array-of-scalars field, returns None without raising and stores None.
C14_Original == [][C14_OriginalStep]_vars

\* what C14 requires of one step
C14_Step ==
    /\ FreshScalarRead => ReadStored(None)
    /\ FreshArrayRead => ReadStored(PList(<<>>))

\* C14: a read of an unset scalar field returns None and stores None; a read of
\* an unset array-of-scalars field returns an empty list and stores that list;
\* neither raises.
C14_UnsetRead == [][C14_Step]_vars

\* an unset array-of-scalars field was read
C14_Witness ==
    /\ op.kind = "read" /\ op.fresh /\ op.e.e = "ok"
    /\ IsArrayOfScalars(cls[op.target], op.name)
    /\ data[op.target][op.name] = PList(<<>>)

\* ---- C15
\* a value that is neither a map, a list nor a node
IsScalar(value) == value.k \in {"none", "int", "str", "bool"}

\* node m did not exist before the step, is of class c, is wired to the written
\* field and holds every scalar value of the plain map it was built from
BuiltFrom(m, c, plain) ==
    /\ m.k = "node" /\ m.v > Len(cls) /\ m.v <= Len(cls')
    /\ cls'[m.v] = c
    /\ parent'[m.v] = op'.target /\ parent_key'[m.v] = op'.name
    /\ plain.k = "dict"
    /\ \A i \in 1..Len(plain.v) :
          /\ plain.v[i][1] \in DOMAIN data'[m.v]
          /\ IsScalar(plain.v[i][2]) => data'[m.v][plain.v[i][1]] = plain.v[i][2]

\* a scalar value of the plain map is refused by the schema of class c
ViolatesNested(c, plain) ==
    \E i \in 1..Len(plain.v) :
        /\ IsScalar(plain.v[i][2])
        /\ plain.v[i][1] \in Declared(c)
        /\ Validate(Heap, c, plain.v[i][1], plain.v[i][2]).e # "ok"

\* the write of the step assigns a plain map to an object field
WritesMap ==
    /\ op'.kind = "write" /\ op'.value.k = "dict"
    /\ NestedClass(cls[op'.target], op'.name) # ""

\* the write of the step assigns a non-empty list of plain maps to an
\* array-of-objects field
WritesMaps ==
    /\ op'.kind = "write" /\ op'.value.k = "list" /\ op'.value.v # <<>>
    /\ \A i \in 1..Len(op'.value.v) : op'.value.v[i].k = "dict"
    /\ ItemClass(cls[op'.target], op'.name) # ""

\* what C15 requires of one step
C15_Step ==
    /\ (WritesMap /\ op'.e.e = "ok")
       => BuiltFrom(Slot(HeapNext, op'.target, op'.name),
                    NestedClass(cls[op'.target], op'.name), op'.value)
    /\ (WritesMaps /\ op'.e.e = "ok")
       => LET stored == Slot(HeapNext, op'.target, op'.name)
          IN  /\ stored.k = "list" /\ Len(stored.v) = Len(op'.value.v)
              /\ \A i \in 1..Len(op'.value.v) :
                    BuiltFrom(stored.v[i], ItemClass(cls[op'.target], op'.name),
                              op'.value.v[i])
              /\ \A i, j \in 1..Len(stored.v) : i # j => stored.v[i] # stored.v[j]
    /\ (WritesMap /\ ViolatesNested(NestedClass(cls[op'.target], op'.name), op'.value))
       => /\ op'.e.e \in {"TypeError", "ValueError"}
          /\ Slot(HeapNext, op'.target, op'.name) = Slot(Heap, op'.target, op'.name)

\* C15: a successful write of a plain map to an object field stores a new node
\* of the field's nested class that holds the map's values and has the written
\* node as parent and the field as parent key; a successful write of a list of
\* plain maps to an array-of-objects field stores, in the same order, one new
\* node of the item class per map, each wired the same way; a map holding a
\* value the nested schema refuses makes the write raise and store nothing.
C15_PlainMapAssignment == [][C15_Step]_vars

\* a list of two different plain maps was written to an array-of-objects field
C15_Witness ==
    /\ op.kind = "write" /\ op.e.e = "ok" /\ op.value.k = "list"
    /\ Len(op.value.v) = 2 /\ op.value.v[1].k = "dict" /\ op.value.v[1] # op.value.v[2]
    /\ ItemClass(cls[op.target], op.name) # ""
    /\ data[op.target][op.name].k = "list"
    /\ data[data[op.target][op.name].v[2].v]["diagnosed"] = S("z")

\* ---- C16
\* the nodes the call of the step populated from a document of the collection
Populated ==
    IF op'.kind = "refresh" THEN {op'.target}
    ELSE {m \in 1..Len(cls') : m > Len(cls) /\ cls'[m] \in StoredClasses}

\* every value of node m is what a write of it would have stored: a node of
\* the nested class wired to m under an object field, and a valid value
WrittenThrough(H, m) ==
    \A f \in DOMAIN H.data[m] :
        /\ (NestedClass(H.cls[m], f) # "" /\ H.data[m][f] # None)
           => /\ IsNodeOf(H, H.data[m][f], NestedClass(H.cls[m], f))
              /\ H.parent[H.data[m][f].v] = m
              /\ H.parent_key[H.data[m][f].v] = f
        /\ Validate(H, H.cls[m], f, H.data[m][f]).e = "ok"

\* what C16 requires of one step
C16_Step ==
    (op'.kind \in {"find_one", "find_many", "clone", "refresh"} /\ op'.e.e = "ok")
    => \A m \in Populated : WrittenThrough(HeapNext, m)

\* C16: after find_one, find_many, clone or refresh every value of the loaded
\* document has been stored by an attribute write: a plain map under an object
\* field has become a node of the nested class with the loaded node as parent,
\* and every stored value passes validation.
C16_LoadedThroughWrite == [][C16_Step]_vars

\* ---- C17
\* a plain map without its _id
SansId(d) == Dict(DelKey(d.v, "_id"))

\* the step is a successful save() of node n
Saves(n) == op'.kind = "save" /\ op'.e.e = "ok" /\ op'.target = n

\* what C17 requires of one step
C17_Step ==
    \A n \in NodesOf(Heap) : Saves(n)
    => /\ "_id" \in DOMAIN data[n]
          => /\ Len(docs') = Len(docs)
             /\ \A j \in 1..Len(docs) :
                   docs'[j] = IF DictGet(docs[j].v, "_id") = data[n]["_id"]
                              THEN to_dict(HeapNext, n) ELSE docs[j]
       /\ ("_id" \notin DOMAIN data[n] /\ ~(op.kind = "save" /\ op.target = n))
          => /\ Len(docs') = Len(docs) + 1
             /\ SubSeq(docs', 1, Len(docs)) = docs
             /\ SansId(docs'[Len(docs')]) = SansId(to_dict(HeapNext, n))
       /\ (op.kind = "save" /\ op.target = n)
          => /\ Len(docs') = Len(docs)
             /\ \E j \in 1..Len(docs') : SansId(docs'[j]) = SansId(to_dict(HeapNext, n))

\* C17: save() of a node without _id inserts one new document holding the
\* node's plain map; save() of a node with an _id replaces the document with
\* that _id and inserts nothing; a save() that follows a save() of the same
\* node inserts nothing, so the collection keeps one document for the node,
\* equal to its latest plain map.
C17_OneDocumentPerNode == [][C17_Step]_vars

\* ---- C18
\* the node has a created_at that is not null
HasCreated(H, n) == Slot(H, n, "created_at") \notin {Missing, None}

\* what C18 requires of one step
C18_Step ==
    \A n \in NodesOf(Heap) : Saves(n)
    => IF timestamps_enabled
       THEN /\ Slot(HeapNext, n, "last_modified") = Date(now)
            /\ Slot(HeapNext, n, "created_at") =
                  IF HasCreated(Heap, n) THEN Slot(Heap, n, "created_at") ELSE Date(now)
       ELSE /\ Slot(HeapNext, n, "last_modified") = Slot(Heap, n, "last_modified")
            /\ Slot(HeapNext, n, "created_at") = Slot(Heap, n, "created_at")

\* C18: a save() with timestamps_enabled sets last_modified to the time of the
\* save and sets created_at to that time only if the node has none, so that
\* created_at is non-null after the first such save and never changes later; a
\* save() with timestamps disabled writes neither field.
C18_Timestamps == [][C18_Step]_vars

\* ---- C19
\* what C19 requires of one step
C19_Step ==
    (op.kind = "save" /\ op'.kind = "clone" /\ op'.target = op.target)
    => /\ op'.e.e = "ok" /\ op'.ret.k = "node" /\ op'.ret.v > Len(cls)
       /\ "_id" \notin DOMAIN data'[op'.ret.v]
       /\ to_dict(HeapNext, op'.ret.v) = SansId(to_dict(Heap, op.target))
       /\ docs' = docs

\* C19: clone() of a node that was just saved returns a new node without _id
\* whose other fields equal those of the saved document, and inserts nothing
\* into the collection.
C19_CloneAfterSave == [][C19_Step]_vars

\* ---- C20
\* the document of node n is no longer in the collection
Gone(n) ==
    /\ "_id" \in DOMAIN data[n]
    /\ find_one(Store, ById(data[n]["_id"])) = None

\* what C20 requires of one step
C20_Step ==
    (op'.kind \in {"clone", "refresh"} /\ Gone(op'.target))
    => op'.e.e = "ValueError" /\ data' = data

\* C20: clone() and refresh() of a node whose document is no longer in the
\* collection both raise the not-found error and leave the node's fields as
\* they were.
C20_NotFound == [][C20_Step]_vars

\* ---- C21
\* from node c upwards every parent slot that does not hold a list holds the
\* child below it; the walk ends at a node without parent or at a list slot
RECURSIVE ChainRewritten(_, _, _)
ChainRewritten(H, c, fuel) ==
    IF H.parent[c] = 0 THEN TRUE
    ELSE IF IsList(Slot(H, H.parent[c], H.parent_key[c])) THEN TRUE
    ELSE /\ fuel > 0
         /\ Slot(H, H.parent[c], H.parent_key[c]) = NodeRef(c)
         /\ ChainRewritten(H, H.parent[c], fuel - 1)

\* what C21 requires of one step
C21_Step ==
    (op'.kind = "write" /\ op'.e.e = "ok")
    => ChainRewritten(HeapNext, op'.target, Len(cls'))

\* C21: after a successful write on a node c with parent p and parent key k,
\* p's slot k holds c unless it holds a list, and in the same way the slot of
\* p's parent holds p, and so on up the parent chain.
C21_ParentSlotRewrite == [][C21_Step]_vars

\* a write on a grandchild succeeded and both slots above it hold the chain
C21_Witness ==
    /\ op.kind = "write" /\ Succeeded
    /\ parent[op.target] # 0 /\ parent[parent[op.target]] # 0
    /\ Slot(Heap, parent[op.target], parent_key[op.target]) = NodeRef(op.target)
    /\ Slot(Heap, parent[parent[op.target]], parent_key[parent[op.target]])
          = NodeRef(parent[op.target])

\* ---- C22
\* what C22 requires of one step
C22_Step ==
    (/\ op'.kind = "write" /\ op'.value = None
     /\ op'.name \notin UnderscoreNames
     /\ FieldSchema(cls[op'.target], op'.name).enum.has
     /\ op'.e.e = "ok")
    => None \in Range(FieldSchema(cls[op'.target], op'.name).enum.vals)

\* C22: the enum rule is applied before the rule that lets None skip the
\* remaining checks: a write of None to a field that declares an enum list is
\* accepted only if None is a member of that list.
C22_EnumBeforeNone == [][C22_Step]_vars

\* ---- C23
\* element item of a list written to array field name of a node of class c
\* is acceptable: a plain map the item class can be built from, a node of the
\* item class, or else a value that is in the item enum (if one is declared
\* and the value is a scalar) and of the host kind of the item type
ElementOK(H, c, name, item) ==
    LET its == FieldSchema(c, name).items
    IN  IF ItemClass(c, name) # "" /\ item.k = "dict"
        THEN ~ViolatesNested(ItemClass(c, name), item)
        ELSE \/ ItemClass(c, name) # "" /\ IsNodeOf(H, item, ItemClass(c, name))
             \/ /\ (its.enum.has /\ IsScalar(item)) => item \in Range(its.enum.vals)
                /\ its.bsonType.t # <<>> => IsInstance(item, MapType(its.bsonType.t[1]))

\* the positions of the elements of a written list that are not acceptable
Offending(H, c, name, items) ==
    {i \in 1..Len(items) : ~ElementOK(H, c, name, items[i])}

\* what C23 requires of one step
C23_Step ==
    (/\ op'.kind = "write" /\ op'.value # None
     /\ FieldSchema(cls[op'.target], op'.name).bsonType.t = <<"array">>)
    => IF op'.value.k # "list"
       THEN op'.e.e = "TypeError"
       ELSE LET bad == Offending(Heap, cls[op'.target], op'.name, op'.value.v)
            IN  IF bad = {}
                THEN op'.e.e \notin {"TypeError", "ValueError"}
                ELSE /\ op'.e.e \in {"TypeError", "ValueError"}
                     /\ op'.e.i = Least(bad)

OthersUntouched(n) == \A m \in NodesOf(Heap) : m # n => data'[m] = data[m]

\* what C24 requires of one step
C24_Step ==
    /\ (op'.kind = "write_reserved")
       => /\ op'.e.e = "ok"
          /\ OthersUntouched(op'.target)
          /\ op'.name # "_data" => data' = data
    /\ (/\ op'.kind = "write"
        /\ op'.name \notin ReservedNames
        /\ op'.name \in UnderscoreNames
        /\ IsPrimitiveField(cls[op'.target], op'.name)
        /\ op'.value.k # "none")
       => IF KindDeclared(cls[op'.target], op'.name, op'.value)
          THEN op'.e.e = "ok"
          ELSE op'.e.e = "TypeError"

\* C24: reserved names: a write to a reserved internal name is never refused
\* and leaves the field maps alone (every other node's, and the node's own
\* unless the name written is the field map itself); a write to a declared
\* name that begins with an underscore and is not reserved, such as _id, is
\* validated against the schema: a non-null value of another kind than the
\* declared one is refused with TypeError.
C24_ReservedNames == [][C24_Step]_vars

\* ---- C25
\* name is declared by c as an array of objects with an item class
IsArrayOfObjects(c, name) ==
    /\ name \in Declared(c)
    /\ FieldSchema(c, name).bsonType = T1("array")
    /\ FieldSchema(c, name).items.has
    /\ FieldSchema(c, name).items.bsonType = T1("object")
    /\ ItemClass(c, name) # ""

\* value is a ListFieldWrapper bound to the pair (n, name)
BoundContainer(value, n, name) ==
    /\ value.k = "wrap"
    /\ wraps[value.v].parent = n
    /\ wraps[value.v].field_name = name

\* C25: array slots hold containers: whatever non-null value a node stores
\* under a field declared as an array of objects is a ListFieldWrapper bound
\* to that node and that field.
C25_ArraySlotsHoldContainers ==
    \A n \in NodesOf(Heap) : \A name \in DOMAIN data[n] :
        (IsArrayOfObjects(cls[n], name) /\ data[n][name] # None)
        => BoundContainer(data[n][name], n, name)

\* ---- C26
\* C26: termination: no write and no to_dict ends in the stack overflow of an
\* endless walk; no node is on its own parent chain, and no node is reachable
\* from itself through field slots (the serialization of every node is
\* finite).
C26_Termination ==
    /\ op.kind \in {"write", "to_dict"} => op.e.e # "RecursionError"
    /\ \A n \in NodesOf(Heap) : n \notin Ancestors(Heap, n)
    /\ \A n \in NodesOf(Heap) : ~Overflowed(to_dict(Heap, n))

\* ---- C27
\* what C27 requires of one request
C27_Step ==
    (op'.kind = "http" /\ op'.name = "GET" /\ op'.args = <<S("count")>>)
    => /\ DictGet(op'.ret.v, "handler") = S("count_docs")
       /\ DictGet(op'.ret.v, "status") = I(200)
       /\ DictGet(op'.ret.v, "count") = I(Count(Store, op'.value))

\* C27: HTTP routing: a GET request to /{collection}/count is handled by the
\* count handler, never by the get-by-id handler, and is answered with the
\* number of documents that match the filter.
C27_CountRoute == [][C27_Step]_vars

\* ---- C28
\* the value node n stores under a declared name passes the validation of a
\* write of that value to that name
StoredValid(n, name) == Validate(Heap, cls[n], name, data[n][name]).e = "ok"

\* C28: stored values are schema-valid: every value a node stores under a
\* name its schema declares would be accepted by validation for that field;
\* the slot of an array field never holds a single node, and the slot of an
\* object field with a nested class never holds a node of another class.
C28_StoredValuesValid ==
    \A n \in NodesOf(Heap) : \A name \in DOMAIN data[n] :
        name \in Declared(cls[n])
        => /\ StoredValid(n, name)
           /\ FieldSchema(cls[n], name).bsonType = T1("array") => data[n][name].k # "node"
           /\ (NestedClass(cls[n], name) # "" /\ data[n][name].k = "node")
              => cls[data[n][name].v] = NestedClass(cls[n], name)

\* ---- C29
\* the last call was a successful p.k = v with v None or a node, k an object
\* field with a nested class, and c is a node of that class that was stored
\* at p.k (its links still name the slot) and is not the value assigned
Replaced(p, k, c) ==
    /\ op.kind = "write" /\ op.e.e = "ok" /\ op.target = p /\ op.name = k
    /\ op.value.k \in {"none", "node"}
    /\ NestedClass(cls[p], k) # ""
    /\ cls[c] = NestedClass(cls[p], k)
    /\ parent[c] = p /\ parent_key[c] = k
    /\ op.value # NodeRef(c)
    /\ Slot(Heap, p, k) = op.value

\* the entry of k in to_dict(p) after the step is the serialization of v
Reflects(p, k, v) ==
    /\ to_dict(HeapNext, p).k = "dict"
    /\ DictGet(to_dict(HeapNext, p).v, k)
         = (IF v.k = "node" THEN to_dict(HeapNext, v.v) ELSE v)

\* what C29 requires of the step after the assignment
C29_Step ==
    \A p \in NodesOf(Heap) : \A c \in NodesOf(Heap) :
        (/\ Replaced(p, op.name, c)
         /\ op'.kind = "write" /\ op'.e.e = "ok" /\ op'.target = c)
        => /\ Slot(HeapNext, p, op.name) = op.value
           /\ Reflects(p, op.name, op.value)

\* C29: an explicit assignment is durable: when p.k = v, with v None or a
\* node, has replaced the node c stored at p.k, a successful write on c right
\* after it leaves v in the slot, and to_dict(p) still shows v under k.
C29_DurableAssignment == [][C29_Step]_vars

\* ---- C30
\* name is declared by c as object or null, and has a nested class
IsNullableObject(c, name) ==
    /\ name \in Declared(c)
    /\ FieldSchema(c, name).bsonType = TU(<<"object", "null">>)
    /\ NestedClass(c, name) # ""

\* what C30 requires of one step
C30_Step ==
    (op'.kind = "write" /\ IsNullableObject(cls[op'.target], op'.name))
    => /\ (op'.value.k = "dict"
           /\ ~ViolatesNested(NestedClass(cls[op'.target], op'.name), op'.value))
          => /\ op'.e.e = "ok"
             /\ BuiltFrom(Slot(HeapNext, op'.target, op'.name),
                          NestedClass(cls[op'.target], op'.name), op'.value)
       /\ op'.value = None
          => /\ op'.e.e = "ok"
             /\ Slot(HeapNext, op'.target, op'.name) = None

\* C30: nullable object fields: for a field declared as object or null with
\* a nested class, the write of a plain map the nested schema accepts
\* succeeds and stores a new node of the nested class wired to the written
\* node and field, and the write of None succeeds and stores None.
C30_NullableObject == [][C30_Step]_vars

====
